---- MODULE Spec2Model ----
(***************************************************************************)
(* Financial simulator: the historical-sequence library, the contribution  *)
(* schedule lookup and the month-by-month simulation engine, modelled from *)
(* financial_simulation_lib.py and app.py.                                 *)
(*                                                                         *)
(* Numbers.  The program computes in binary floating point.  The model     *)
(* computes in fixed point: money is a whole number of dollars, and every  *)
(* fraction (a rate, a mix share, a volatility) is a whole number of       *)
(* 1/Scale units; a product of a value and a fraction is floored, as       *)
(* FxMul does.  Percent values of the return table are fixed-point         *)
(* percents (1% = Scale).                                                  *)
(***************************************************************************)
EXTENDS Integers, Sequences, FiniteSets, TLC

VARIABLES
    pc,                     \* position of the program
    market_returns,         \* asset -> (year -> percent return)
    sequences,              \* result of get_15_year_sequences
    complete_sequences,     \* the caller's filtered list
    contribution_periods,   \* the caller's schedule
    lookup_month,           \* argument of the last schedule lookup
    applicable_contribution,\* result of the last schedule lookup
    investment_mix,         \* run_investment_simulation's parameters
    investment_start,
    emergency_fund_start,
    total_iterations,
    hysa_apy,
    SP500_std,
    NASDAQ_std,
    T_Bills_std,
    enable_rebalancing,
    rebalancing_threshold,
    rng,                    \* state of numpy's global random generator
    simulation_results,     \* the result set being built
    HYSA_monthly_returns,   \* the cash-equivalent monthly rate
    target_mix,
    seq_idx,                \* loop variables of the engine
    iteration,
    year_idx,
    month_idx,
    investment_breakdown,   \* the run being built
    current_mix,            \* the active contribution-allocation mix
    sp500_monthly_returns,  \* the vectors sampled for the current year
    nasdaq_monthly_returns,
    TBILL_3M_monthly_returns,
    contribution,           \* the amount looked up for the current month
    contribution_calls,     \* the months contribution_function was called
                            \* with, in call order, within the current run
    previous_results,       \* the caller's results of the previous portfolio
    portfolios_left,        \* enabled portfolios the caller has still to run
    irr_idx,                \* calculate_all_irrs: position in the result set
    cash_flows,             \* calculate_all_irrs: the lists of the last run
    times,                  \* visited (times in twelfths of a year)
    baseline_cash_flows,
    baseline_times,
    irr_returns,            \* calculate_all_irrs: the two output lists
    baseline_irr_returns,
    baseline_irr,           \* calculate_all_irrs: the Baseline's last result
    data,                   \* result of extract_simulation_data
    beat_baseline_pct,      \* the summary's share of runs above their Baseline
    milestone_idx,          \* position in the list of milestone years
    milestone_values,       \* calculate_milestone_statistics: the sample
    milestone_baselines,
    stats,                  \* result of calculate_milestone_statistics
    sorted_sequences,       \* the sequence ranking
    p0,                     \* newton: the current estimate
    itr,                    \* newton: iterations done
    irr                     \* result of calculate_irr

seqVars == <<market_returns, sequences, complete_sequences>>
contribVars == <<contribution_periods, lookup_month, applicable_contribution>>
paramVars == <<investment_mix, investment_start, emergency_fund_start,
               total_iterations, hysa_apy, SP500_std, NASDAQ_std, T_Bills_std,
               enable_rebalancing, rebalancing_threshold>>
setupVars == <<simulation_results, HYSA_monthly_returns, target_mix>>
loopVars == <<seq_idx, iteration, year_idx, month_idx>>
sampleVars == <<sp500_monthly_returns, nasdaq_monthly_returns,
                TBILL_3M_monthly_returns>>
runVars == <<investment_breakdown, current_mix, contribution, contribution_calls>>
engineVars == <<paramVars, rng, setupVars, loopVars, sampleVars, runVars>>
appVars == <<previous_results, portfolios_left>>
flowVars == <<cash_flows, times, baseline_cash_flows, baseline_times>>
irrVars == <<irr_idx, flowVars, irr_returns, baseline_irr_returns, baseline_irr>>
displayVars == <<data, beat_baseline_pct, milestone_idx, milestone_values,
                 milestone_baselines, stats, sorted_sequences>>
newtonVars == <<p0, itr, irr>>
vars == <<pc, seqVars, contribVars, engineVars, appVars, irrVars, displayVars,
          newtonVars>>

----------------------------------------------------------------------------
(* Bounds of the model *)

\* last year any synthetic return table can hold (tables start at year 1)
MaxYear == 18
\* a series may start at any year 1..MaxLo
MaxLo == 2

\* most periods a contribution schedule holds
MaxPeriods == 3
\* latest start month a schedule of the lookup specification uses
MaxStart == 2

(* Program constants *)

\* end_year = start_year + 14, and the loop bound latest_year - 14
WindowSpan == 14
\* the years of one run: range(15)
YearsPerRun == 15
\* the months of one year: range(12)
MonthsPerYear == 12

\* fixed-point unit of every fraction
Scale == 10 * 100

Assets == {"SP500", "NASDAQ100", "TBILL_3M"}

----------------------------------------------------------------------------
(* Python helpers *)

Min(S) == CHOOSE x \in S : \A y \in S : x <= y
Max(S) == CHOOSE x \in S : \A y \in S : x >= y

\* sorted(d.keys()): the keys in ascending order
RECURSIVE SortedKeys(_)
SortedKeys(S) ==
    IF S = {} THEN <<>> ELSE <<Min(S)>> \o SortedKeys(S \ {Min(S)})

\* x in list
InList(x, l) == \E i \in 1..Len(l) : l[i] = x

\* range(a, b) as a list
Range(a, b) == [i \in 1..(IF b > a THEN b - a ELSE 0) |-> a + i - 1]

\* the null marker and a present list
None == [is_none |-> TRUE, list |-> <<>>]
Some(l) == [is_none |-> FALSE, list |-> l]

----------------------------------------------------------------------------
(* get_15_year_sequences *)

\* (a variant that also asks for the year after the window)
HasAllOneMore(years, start_year, end_year) ==
    \A i \in 1..Len(Range(start_year, end_year + 2)) :
        InList(Range(start_year, end_year + 2)[i], years)

\* all(year in years for year in range(start_year, end_year + 1))
HasAll(years, start_year, end_year) ==
    \A i \in 1..Len(Range(start_year, end_year + 1)) :
        InList(Range(start_year, end_year + 1)[i], years)

\* (a variant that stops one year short: range(start_year, end_year))
WindowReturnsShort(table, start_year, end_year) ==
    [i \in 1..Len(Range(start_year, end_year)) |->
        table[Range(start_year, end_year)[i]]]

\* [market_returns[asset][year] for year in range(start_year, end_year + 1)]
WindowReturns(table, start_year, end_year) ==
    [i \in 1..Len(Range(start_year, end_year + 1)) |->
        table[Range(start_year, end_year + 1)[i]]]

\* one iteration of the loop over start_year
BuildSequence(mr, start_year) ==
    LET end_year == start_year + WindowSpan
        sp500_years == SortedKeys(DOMAIN mr["SP500"])
        nasdaq_years == SortedKeys(DOMAIN mr["NASDAQ100"])
        tbill_years == SortedKeys(DOMAIN mr["TBILL_3M"])
        has_sp500 == HasAll(sp500_years, start_year, end_year)
        has_nasdaq == HasAll(nasdaq_years, start_year, end_year)
        has_tbill == HasAll(tbill_years, start_year, end_year)
    IN  [start_year |-> start_year,
         end_year |-> end_year,
         SP500 |-> IF has_sp500
                   THEN Some(WindowReturns(mr["SP500"], start_year, end_year))
                   ELSE None,
         NASDAQ100 |-> IF has_nasdaq
                   THEN Some(WindowReturns(mr["NASDAQ100"], start_year, end_year))
                   ELSE None,
         TBILL_3M |-> IF has_tbill
                   THEN Some(WindowReturns(mr["TBILL_3M"], start_year, end_year))
                   ELSE None]

\* the start years the loop visits: range(earliest_year, latest_year - 14)
StartYears(mr) ==
    LET sp500_years == SortedKeys(DOMAIN mr["SP500"])
        nasdaq_years == SortedKeys(DOMAIN mr["NASDAQ100"])
        tbill_years == SortedKeys(DOMAIN mr["TBILL_3M"])
        earliest_year == Min({sp500_years[1], nasdaq_years[1], tbill_years[1]})
        latest_year == Max({sp500_years[Len(sp500_years)],
                            nasdaq_years[Len(nasdaq_years)],
                            tbill_years[Len(tbill_years)]})
    IN  Range(earliest_year, latest_year - WindowSpan)

get_15_year_sequences(mr) ==
    [i \in 1..Len(StartYears(mr)) |-> BuildSequence(mr, StartYears(mr)[i])]

\* the caller's filter: all three asset entries are not None
IsComplete(seq) ==
    /\ ~seq.SP500.is_none
    /\ ~seq.NASDAQ100.is_none
    /\ ~seq.TBILL_3M.is_none

RECURSIVE FilterComplete(_)
FilterComplete(seqs) ==
    IF seqs = <<>> THEN <<>>
    ELSE (IF IsComplete(Head(seqs)) THEN <<Head(seqs)>> ELSE <<>>)
         \o FilterComplete(Tail(seqs))

----------------------------------------------------------------------------
(* Synthetic return tables *)

\* the percent return (fixed point, 1% = Scale) the tables give an asset in a year
ReturnPct(asset, year) ==
    CASE asset = "SP500" -> (((year * 37) % 21) - 6) * Scale
      [] asset = "NASDAQ100" -> (((year * 53) % 31) - 10) * Scale
      [] OTHER -> ((year * 11) % 6) * Scale

\* a series covering lo..hi, without the year gap (gap = 0: no gap)
Series(asset, lo, hi, gap) ==
    [year \in (lo..hi) \ {gap} |-> ReturnPct(asset, year)]

\* the gaps a series may have: none, one near the start, one near the end
Gaps == {0, 3, MaxYear - 2}

SeriesOf(asset) ==
    {Series(asset, lo, hi, gap) :
        lo \in 1..MaxLo, hi \in (MaxYear - 1)..MaxYear, gap \in Gaps}

Tables ==
    {[a \in Assets |-> IF a = "SP500" THEN s ELSE IF a = "NASDAQ100" THEN n ELSE t] :
        s \in SeriesOf("SP500"), n \in SeriesOf("NASDAQ100"), t \in SeriesOf("TBILL_3M")}

----------------------------------------------------------------------------
(* The sequence library and its caller *)

ContribIdle ==
    /\ contribution_periods = <<>>
    /\ lookup_month = 0
    /\ applicable_contribution = 0

\* the engine before any call of run_investment_simulation
NoMix == [SP500 |-> 0, NASDAQ |-> 0, TBill |-> 0, HYSA |-> 0]

NoResults ==
    [iteration |-> <<>>, sequence_index |-> <<>>, sequence_start_year |-> <<>>,
     sequence_end_year |-> <<>>, result_dict |-> <<>>]

NoBreakdown ==
    [Month_Index |-> <<>>, SP500 |-> <<>>, NASDAQ100 |-> <<>>, TBILL_3M |-> <<>>,
     HYSA |-> <<>>, Emergency_fund |-> <<>>, Baseline |-> <<>>]

EngineLocalsIdle ==
    /\ simulation_results = NoResults
    /\ HYSA_monthly_returns = 0
    /\ target_mix = NoMix
    /\ seq_idx = 0
    /\ iteration = 0
    /\ year_idx = 0
    /\ month_idx = 0
    /\ investment_breakdown = NoBreakdown
    /\ current_mix = NoMix
    /\ sp500_monthly_returns = <<>>
    /\ nasdaq_monthly_returns = <<>>
    /\ TBILL_3M_monthly_returns = <<>>
    /\ contribution = 0
    /\ contribution_calls = <<>>

\* the caller's portfolio loop and calculate_all_irrs before they start
\* A float is either nan or a number; np.nan is the value calculate_irr returns
\* on failure and the value numpy gives for the statistics of an empty array.
NaN == [nan |-> TRUE, value |-> 0]

Num(v) == [nan |-> FALSE, value |-> v]

isnan(x) == x.nan

NoData ==
    [final_values |-> <<>>, baselines |-> <<>>, all_timeseries |-> <<>>,
     sequence_indices |-> <<>>]

NoStats ==
    [p25 |-> Num(0), p50 |-> Num(0), p75 |-> Num(0), avg_baseline |-> Num(0),
     beat_baseline_pct |-> Num(0), median_gain |-> Num(0)]

FlowsIdle ==
    /\ cash_flows = <<>>
    /\ times = <<>>
    /\ baseline_cash_flows = <<>>
    /\ baseline_times = <<>>

IrrIdle ==
    /\ irr_idx = 0
    /\ FlowsIdle
    /\ irr_returns = <<>>
    /\ baseline_irr_returns = <<>>
    /\ baseline_irr = Num(0)

DisplayIdle ==
    /\ data = NoData
    /\ beat_baseline_pct = Num(0)
    /\ milestone_idx = 0
    /\ milestone_values = <<>>
    /\ milestone_baselines = <<>>
    /\ stats = NoStats
    /\ sorted_sequences = <<>>

NewtonIdle ==
    /\ p0 = 0
    /\ itr = 0
    /\ irr = Num(0)

ParamsIdle ==
    /\ previous_results = NoResults
    /\ portfolios_left = 0
    /\ investment_mix = NoMix
    /\ investment_start = 0
    /\ emergency_fund_start = 0
    /\ total_iterations = 0
    /\ hysa_apy = 0
    /\ SP500_std = 0
    /\ NASDAQ_std = 0
    /\ T_Bills_std = 0
    /\ enable_rebalancing = FALSE
    /\ rebalancing_threshold = 0
    /\ rng = 0

EngineIdle ==
    /\ ParamsIdle
    /\ IrrIdle
    /\ DisplayIdle
    /\ NewtonIdle
    /\ EngineLocalsIdle

InitSeq ==
    /\ pc = "load"
    /\ market_returns \in Tables
    /\ sequences = <<>>
    /\ complete_sequences = <<>>
    /\ ContribIdle
    /\ EngineIdle

\* sequences = get_15_year_sequences(market_returns)
GetSequences ==
    /\ pc = "load"
    /\ sequences' = get_15_year_sequences(market_returns)
    /\ pc' = "filter"
    /\ UNCHANGED <<market_returns, complete_sequences, contribVars, engineVars, appVars, irrVars, displayVars, newtonVars>>

\* complete_sequences = [seq for seq in sequences if ...]
SelectComplete ==
    /\ pc = "filter"
    /\ complete_sequences' = FilterComplete(sequences)
    /\ pc' = "loaded"
    /\ UNCHANGED <<market_returns, sequences, contribVars, engineVars, appVars, irrVars, displayVars, newtonVars>>

NextSeq == GetSequences \/ SelectComplete

SpecSeq == InitSeq /\ [][NextSeq]_vars

----------------------------------------------------------------------------
(* Claims about get_15_year_sequences and its caller *)

\* the years present in any of the three series
AllYears == UNION {DOMAIN market_returns[a] : a \in Assets}

\* asset a of the table lacks some year of the window starting at start
HasGap(a, start) == \E y \in start..(start + WindowSpan) : y \notin DOMAIN market_returns[a]

\* the entry of asset a in a sequence record
Entry(seq, a) ==
    CASE a = "SP500" -> seq.SP500
      [] a = "NASDAQ100" -> seq.NASDAQ100
      [] OTHER -> seq.TBILL_3M

\* C1: the returned list holds, in ascending order, exactly one sequence for
\* every start year from the earliest year of any series up to and including
\* latestYear - 14, so the window ending at latestYear is in the list.
C1_StartYearsThroughLatestMinus14 ==
    pc # "load" =>
        LET earliest == Min(AllYears)
            last == Max(AllYears) - WindowSpan
        IN  /\ Len(sequences) = (IF last >= earliest THEN last - earliest + 1 ELSE 0)
            /\ \A i \in 1..Len(sequences) : sequences[i].start_year = earliest + i - 1

\* C2: an asset entry is the null marker exactly when the asset's series lacks
\* a year of the window; incomplete sequences stay in the list (the start
\* years have no holes), and the caller's list holds exactly the sequences
\* whose three entries are all present, in the same order.
C2_NullIffGapAndCallerFilters ==
    /\ pc # "load" =>
        \A i \in 1..Len(sequences) :
            /\ \A a \in Assets :
                Entry(sequences[i], a).is_none <=> HasGap(a, sequences[i].start_year)
            /\ sequences[i].start_year = Min(AllYears) + i - 1
    /\ pc = "loaded" =>
        /\ \A j \in 1..Len(complete_sequences) :
            /\ \A a \in Assets : ~HasGap(a, complete_sequences[j].start_year)
            /\ \E i \in 1..Len(sequences) : sequences[i] = complete_sequences[j]
            /\ j > 1 => complete_sequences[j - 1].start_year
                            < complete_sequences[j].start_year
        /\ \A i \in 1..Len(sequences) :
            (\A a \in Assets : ~Entry(sequences[i], a).is_none)
                => \E j \in 1..Len(complete_sequences) :
                        complete_sequences[j] = sequences[i]

\* a list with an incomplete sequence that the caller filtered out
C2_Witness ==
    /\ pc = "loaded"
    /\ complete_sequences # <<>>
    /\ Len(complete_sequences) < Len(sequences)
    /\ \E i \in 1..Len(sequences) :
        sequences[i].NASDAQ100.is_none /\ ~sequences[i].SP500.is_none

\* C3: every sequence has end_year = start_year + 14, and every present asset
\* list has 15 entries, the k-th being the table's value for start_year + k.
C3_WindowShape ==
    pc # "load" =>
        \A i \in 1..Len(sequences) :
            /\ sequences[i].end_year = sequences[i].start_year + 14
            /\ \A a \in Assets :
                ~Entry(sequences[i], a).is_none =>
                    /\ Len(Entry(sequences[i], a).list) = YearsPerRun
                    /\ \A k \in 0..(YearsPerRun - 1) :
                        Entry(sequences[i], a).list[k + 1]
                            = market_returns[a][sequences[i].start_year + k]

\* a list of at least two sequences, one of them with all three lists present
C3_Witness ==
    /\ pc = "loaded"
    /\ Len(sequences) >= 2
    /\ \E i \in 1..Len(sequences) : \A a \in Assets : ~Entry(sequences[i], a).is_none

----------------------------------------------------------------------------
(* The contribution schedule: app.py *)

\* sorted(contribution_periods, key=lambda x: x['start_month']): a stable sort
RECURSIVE InsertByStart(_, _)
InsertByStart(sorted, period) ==
    IF sorted = <<>> THEN <<period>>
    ELSE IF sorted[Len(sorted)].start_month <= period.start_month
         THEN Append(sorted, period)
         ELSE Append(InsertByStart(SubSeq(sorted, 1, Len(sorted) - 1), period),
                     sorted[Len(sorted)])

RECURSIVE SortByStart(_)
SortByStart(periods) ==
    IF periods = <<>> THEN <<>>
    ELSE InsertByStart(SortByStart(SubSeq(periods, 1, Len(periods) - 1)),
                       periods[Len(periods)])

\* (a variant of the loop that tests month > period['start_month'])
RECURSIVE ContributionLoopStrict(_, _, _, _)
ContributionLoopStrict(month, periods, i, applicable) ==
    IF i > Len(periods) THEN applicable
    ELSE IF month > periods[i].start_month
         THEN ContributionLoopStrict(month, periods, i + 1, periods[i].contribution)
         ELSE applicable

\* the loop of get_contribution_for_month from its i-th period on
RECURSIVE ContributionLoop(_, _, _, _)
ContributionLoop(month, periods, i, applicable) ==
    IF i > Len(periods) THEN applicable
    ELSE IF month >= periods[i].start_month
         THEN ContributionLoop(month, periods, i + 1, periods[i].contribution)
         ELSE applicable

get_contribution_for_month(month, periods) ==
    ContributionLoop(month, periods, 1, periods[1].contribution)

\* the amounts and the schedules the lookup specification draws from
Amounts == {100, 200}

PeriodsOf(n) ==
    [1..n -> [contribution : Amounts, start_month : 0..MaxStart]]

InitContrib ==
    /\ pc = "build"
    /\ \E n \in 1..MaxPeriods : contribution_periods \in PeriodsOf(n)
    /\ lookup_month = 0
    /\ applicable_contribution = 0
    /\ market_returns = <<>>
    /\ sequences = <<>>
    /\ complete_sequences = <<>>
    /\ EngineIdle

\* contribution_periods = sorted(contribution_periods, key=...)
SortPeriods ==
    /\ pc = "build"
    /\ contribution_periods' = SortByStart(contribution_periods)
    /\ pc' = "ready"
    /\ UNCHANGED <<lookup_month, applicable_contribution, seqVars, engineVars, appVars, irrVars, displayVars, newtonVars>>

\* contribution_func(month)
Lookup ==
    /\ pc \in {"ready", "looked"}
    /\ \E month \in 0..(MaxStart + 1) :
        /\ lookup_month' = month
        /\ applicable_contribution' =
                get_contribution_for_month(month, contribution_periods)
    /\ pc' = "looked"
    /\ UNCHANGED <<contribution_periods, seqVars, engineVars, appVars, irrVars, displayVars, newtonVars>>

NextContrib == SortPeriods \/ Lookup

SpecContrib == InitContrib /\ [][NextContrib]_vars

\* the periods of the schedule that have started by month m
Started(m) ==
    {i \in 1..Len(contribution_periods) : contribution_periods[i].start_month <= m}

\* the schedule is in ascending start_month order
SortedByStart ==
    \A i \in 1..(Len(contribution_periods) - 1) :
        contribution_periods[i].start_month <= contribution_periods[i + 1].start_month

\* the lookup returned the last started period's amount, or the first period's
\* amount when none has started
LastStartedAmount ==
    /\ SortedByStart
    /\ applicable_contribution =
        IF Started(lookup_month) = {}
        THEN contribution_periods[1].contribution
        ELSE contribution_periods[Max(Started(lookup_month))].contribution

\* C4 as stated: on a sorted schedule the lookup returns the last started
\* period's amount (the first period's when none has started), and a lookup at
\* a month equal to a period's start_month returns that period's amount.
C4_LookupAsStated ==
    pc = "looked" =>
        /\ LastStartedAmount
        /\ \A i \in 1..Len(contribution_periods) :
            contribution_periods[i].start_month = lookup_month
                => applicable_contribution = contribution_periods[i].contribution

\* C4 amended: on a sorted schedule the lookup returns the last started
\* period's amount (the first period's when none has started); a lookup at a
\* month equal to a period's start_month returns the amount of the last period
\* with that start_month, which is that period's own amount when no later
\* period shares its start_month.
C4_LookupLastOfTies ==
    pc = "looked" =>
        /\ LastStartedAmount
        /\ \A i \in 1..Len(contribution_periods) :
            (/\ contribution_periods[i].start_month = lookup_month
             /\ \A j \in (i + 1)..Len(contribution_periods) :
                    contribution_periods[j].start_month # lookup_month)
                => applicable_contribution = contribution_periods[i].contribution

\* lookups of the three kinds have happened: here one at a period's exact
\* start month, on a schedule whose first period starts later than month 0
C4_Witness ==
    /\ pc = "looked"
    /\ Len(contribution_periods) >= 2
    /\ contribution_periods[1].start_month > 0
    /\ contribution_periods[2].start_month = lookup_month
    /\ contribution_periods[1].start_month < lookup_month
    /\ contribution_periods[1].contribution # contribution_periods[2].contribution
    /\ applicable_contribution = contribution_periods[2].contribution

----------------------------------------------------------------------------
(* Fixed-point arithmetic *)

\* value * fraction
FxMul(a, b) == (a * b) \div Scale

\* a / b as a fraction
FxDiv(a, b) == (a * Scale) \div b

Abs(x) == IF x < 0 THEN -x ELSE x

\* y ** n, the product left as it is once it exceeds both 1 and cap (it can
\* only grow from there)
RECURSIVE FxPow(_, _, _)
FxPow(y, n, cap) ==
    IF n = 0 THEN Scale
    ELSE LET p == FxPow(y, n - 1, cap)
         IN  IF p > cap /\ p > Scale THEN p ELSE FxMul(p, y)

\* the largest y in lo..hi with y ** 12 <= x
RECURSIVE RootSearch(_, _, _)
RootSearch(lo, hi, x) ==
    IF lo >= hi THEN lo
    ELSE LET mid == (lo + hi + 1) \div 2
         IN  IF FxPow(mid, MonthsPerYear, x) <= x
             THEN RootSearch(mid, hi, x)
             ELSE RootSearch(lo, mid - 1, x)

\* x ** (1/12), for 0 <= x
Root12(x) == RootSearch(0, 2 * Scale, x)

----------------------------------------------------------------------------
(* The random generator and calculate_monthly_return *)

\* one step of the generator (a full-period congruential generator stands
\* for numpy's)
NextRng(r) == (r * 5 + 3) % 64

\* the generator after k draws
RECURSIVE RngAfter(_, _)
RngAfter(r, k) == IF k = 0 THEN r ELSE NextRng(RngAfter(r, k - 1))

\* (a variant whose draws keep some spread when std is 0)
NormalNoisy(std, r) == (std + 1) * (((r \div 4) % 5) - 2)

\* np.random.normal(0, std), drawn in generator state r: std times a standard
\* draw in -2..2
Normal(std, r) == std * (((r \div 4) % 5) - 2)

\* (1 + yearly_return) ** (1/12) - 1
AvgMonthlyReturn(yearly_return) == Root12(Scale + yearly_return) - Scale

\* calculate_monthly_return(yearly_return, std) called in generator state r:
\* the i-th value uses the i-th draw
calculate_monthly_return(yearly_return, std, r) ==
    [i \in 1..MonthsPerYear |->
        AvgMonthlyReturn(yearly_return) + Normal(std, RngAfter(r, i))]

\* seq[asset][year_idx] / 100: a percent as a fraction
PctToFraction(pct) == pct \div 100

----------------------------------------------------------------------------
(* run_investment_simulation *)

Last(l) == l[Len(l)]

MixAssets == {"SP500", "NASDAQ", "TBill", "HYSA"}

\* the four balances the rebalancing check reads
total_value ==
    Last(investment_breakdown.SP500) + Last(investment_breakdown.NASDAQ100)
        + Last(investment_breakdown.TBILL_3M) + Last(investment_breakdown.HYSA)

current_allocation ==
    [SP500 |-> FxDiv(Last(investment_breakdown.SP500), total_value),
     NASDAQ |-> FxDiv(Last(investment_breakdown.NASDAQ100), total_value),
     TBill |-> FxDiv(Last(investment_breakdown.TBILL_3M), total_value),
     HYSA |-> FxDiv(Last(investment_breakdown.HYSA), total_value)]

\* (a variant that also counts a drift equal to the threshold)
needs_rebalancing_inclusive ==
    \E asset \in MixAssets :
        Abs(current_allocation[asset] - target_mix[asset]) >= rebalancing_threshold

\* (a variant that takes a threshold of 0 as no threshold at all)
needs_rebalancing_truthy ==
    /\ rebalancing_threshold # 0
    /\ \E asset \in MixAssets :
        Abs(current_allocation[asset] - target_mix[asset]) > rebalancing_threshold

needs_rebalancing ==
    \E asset \in MixAssets :
        Abs(current_allocation[asset] - target_mix[asset]) > rebalancing_threshold

adjustments == [asset \in MixAssets |-> -(current_allocation[asset] - target_mix[asset])]

Pos(x) == IF x > 0 THEN x ELSE 0

MixSum(m) == m["SP500"] + m["NASDAQ"] + m["TBill"] + m["HYSA"]

total_adjustment == MixSum([asset \in MixAssets |-> Pos(adjustments[asset])])

\* (a variant that adjusts the active mix instead of the target mix)
AdjustedMixFromCurrent ==
    [asset \in MixAssets |->
        current_mix[asset]
            + FxMul(FxDiv(adjustments[asset], total_adjustment), Scale \div 2)]

\* target_mix[asset] + (adjustments[asset] / total_adjustment) * 0.5
AdjustedMix ==
    [asset \in MixAssets |->
        target_mix[asset]
            + FxMul(FxDiv(adjustments[asset], total_adjustment), Scale \div 2)]

\* current_mix[asset] / total_mix, when total_mix > 0
NormalizedMix(m) ==
    IF MixSum(m) > 0 THEN [asset \in MixAssets |-> FxDiv(m[asset], MixSum(m))] ELSE m

\* (a variant that checks every month)
IsCheckpointMonthly(current_month) == enable_rebalancing /\ current_month > 0

\* enable_rebalancing and current_month > 0 and current_month % 3 == 0
IsCheckpoint(current_month) ==
    enable_rebalancing /\ current_month > 0 /\ current_month % 3 = 0

\* the quarterly check: the mix in force for the transition out of current_month
RebalancedMix(current_month) ==
    IF IsCheckpoint(current_month)
    THEN IF total_value > 0
         THEN IF needs_rebalancing
              THEN IF total_adjustment > 0
                   THEN NormalizedMix(AdjustedMix)
                   ELSE current_mix
              ELSE current_mix
         ELSE current_mix
    ELSE current_mix

\* contribution_function(month): the closure the caller passes
contribution_function(month) == get_contribution_for_month(month, contribution_periods)

\* (a variant that adds the share after the growth)
GrowThenAdd(prev, share, monthly_return) == FxMul(prev, Scale + monthly_return) + share

\* (prev + share) * (1 + monthly_return)
Grow(prev, share, monthly_return) == FxMul(prev + share, Scale + monthly_return)

\* (a variant whose Baseline leaves the emergency fund out)
InitialBreakdownNoEmergency ==
    [Month_Index |-> <<0>>,
     SP500 |-> <<FxMul(investment_start, investment_mix.SP500)>>,
     NASDAQ100 |-> <<FxMul(investment_start, investment_mix.NASDAQ)>>,
     TBILL_3M |-> <<FxMul(investment_start, investment_mix.TBill)>>,
     HYSA |-> <<FxMul(investment_start, investment_mix.HYSA)>>,
     Emergency_fund |-> <<emergency_fund_start>>,
     Baseline |-> <<investment_start>>]

\* the month-0 state of a run
InitialBreakdown ==
    [Month_Index |-> <<0>>,
     SP500 |-> <<FxMul(investment_start, investment_mix.SP500)>>,
     NASDAQ100 |-> <<FxMul(investment_start, investment_mix.NASDAQ)>>,
     TBILL_3M |-> <<FxMul(investment_start, investment_mix.TBill)>>,
     HYSA |-> <<FxMul(investment_start, investment_mix.HYSA)>>,
     Emergency_fund |-> <<emergency_fund_start>>,
     Baseline |-> <<investment_start + emergency_fund_start>>]

\* (a variant that looks the contribution up by the position in the year)
ContributionMonthInYear(current_month) == month_idx

\* the month the contribution is looked up for: contribution_function(current_month)
ContributionMonth(current_month) == current_month

\* (a variant that appends the month itself)
SameMonthIndex(current_month) == current_month

\* investment_breakdown['Month_Index'].append(current_month + 1)
NextMonthIndex(current_month) == current_month + 1

\* (a variant in which the Baseline gets the cash-equivalent share only)
BaselineSplit(prev, amount, mix) == Grow(prev, FxMul(amount, mix.HYSA), HYSA_monthly_returns)

\* (a variant whose Baseline grows at the month's sampled T-bill return)
BaselineAtTBill(prev, amount, mix) ==
    Grow(prev, amount, TBILL_3M_monthly_returns[month_idx + 1])

\* new_baseline: the full contribution, at the cash-equivalent rate
BaselineNext(prev, amount, mix) == Grow(prev, amount, HYSA_monthly_returns)

\* (a variant that compounds the emergency fund at the month's T-bill return)
EmergencyAtTBill(prev) == Grow(prev, 0, TBILL_3M_monthly_returns[month_idx + 1])

\* Emergency_fund[-1] * (1 + HYSA_monthly_returns)
EmergencyNext(prev) == FxMul(prev, Scale + HYSA_monthly_returns)

\* (a variant that, when the mix changes, first resets the recorded balance
\* of each asset to its target share of the total: a sell/buy rebalancing)
NextBreakdownSelling(current_month, amount, mix) ==
    LET Sold(series, share) ==
            IF mix # current_mix
            THEN [series EXCEPT ![Len(series)] = FxMul(total_value, share)]
            ELSE series
        Next(series, share, after, monthly_return) ==
            Append(Sold(series, share),
                   Grow(Last(Sold(series, share)), FxMul(amount, after), monthly_return))
    IN  [Month_Index |-> Append(investment_breakdown.Month_Index, current_month + 1),
         SP500 |-> Next(investment_breakdown.SP500, target_mix.SP500, mix.SP500,
                        sp500_monthly_returns[month_idx + 1]),
         NASDAQ100 |-> Next(investment_breakdown.NASDAQ100, target_mix.NASDAQ,
                            mix.NASDAQ, nasdaq_monthly_returns[month_idx + 1]),
         TBILL_3M |-> Next(investment_breakdown.TBILL_3M, target_mix.TBill, mix.TBill,
                           TBILL_3M_monthly_returns[month_idx + 1]),
         HYSA |-> Next(investment_breakdown.HYSA, target_mix.HYSA, mix.HYSA,
                       HYSA_monthly_returns),
         Emergency_fund |-> Append(investment_breakdown.Emergency_fund,
            FxMul(Last(investment_breakdown.Emergency_fund), Scale + HYSA_monthly_returns)),
         Baseline |-> Append(investment_breakdown.Baseline,
            Grow(Last(investment_breakdown.Baseline), amount, HYSA_monthly_returns))]

\* the balances after the transition out of current_month, with the amount
\* and the mix of that month
NextBreakdown(current_month, amount, mix) ==
    [Month_Index |-> Append(investment_breakdown.Month_Index,
                            NextMonthIndex(current_month)),
     SP500 |-> Append(investment_breakdown.SP500,
        Grow(Last(investment_breakdown.SP500), FxMul(amount, mix.SP500),
             sp500_monthly_returns[month_idx + 1])),
     NASDAQ100 |-> Append(investment_breakdown.NASDAQ100,
        Grow(Last(investment_breakdown.NASDAQ100), FxMul(amount, mix.NASDAQ),
             nasdaq_monthly_returns[month_idx + 1])),
     TBILL_3M |-> Append(investment_breakdown.TBILL_3M,
        Grow(Last(investment_breakdown.TBILL_3M), FxMul(amount, mix.TBill),
             TBILL_3M_monthly_returns[month_idx + 1])),
     HYSA |-> Append(investment_breakdown.HYSA,
        Grow(Last(investment_breakdown.HYSA), FxMul(amount, mix.HYSA),
             HYSA_monthly_returns)),
     Emergency_fund |-> Append(investment_breakdown.Emergency_fund,
        EmergencyNext(Last(investment_breakdown.Emergency_fund))),
     Baseline |-> Append(investment_breakdown.Baseline,
        BaselineNext(Last(investment_breakdown.Baseline), amount, mix))]

\* lines 380-398: the empty result set, the cash rate, the target mix
Setup ==
    /\ pc = "call"
    /\ simulation_results' = NoResults
    /\ HYSA_monthly_returns' = calculate_monthly_return(hysa_apy, 0, rng)[1]
    /\ rng' = RngAfter(rng, MonthsPerYear)
    /\ target_mix' = [SP500 |-> investment_mix.SP500, NASDAQ |-> investment_mix.NASDAQ,
                      TBill |-> investment_mix.TBill, HYSA |-> investment_mix.HYSA]
    /\ seq_idx' = 0
    /\ iteration' = 0
    /\ pc' = IF Len(complete_sequences) > 0 /\ total_iterations > 0
             THEN "run" ELSE "return"
    /\ UNCHANGED <<seqVars, contribVars, paramVars, appVars, irrVars, displayVars,
                   newtonVars, year_idx, month_idx,
                   sampleVars, runVars>>

\* (a variant in which a run after the first inherits the active mix)
CarriedMix == IF simulation_results.result_dict = <<>> THEN target_mix ELSE current_mix

\* current_mix = target_mix.copy()
InitialMix == target_mix

\* lines 402-413: a run starts from the month-0 state and the target mix
StartRun ==
    /\ pc = "run"
    /\ investment_breakdown' = InitialBreakdown
    /\ current_mix' = InitialMix
    /\ contribution_calls' = <<>>
    /\ year_idx' = 0
    /\ pc' = "year"
    /\ UNCHANGED <<seqVars, contribVars, paramVars, appVars, irrVars, displayVars,
                   newtonVars, rng, setupVars, seq_idx,
                   iteration, month_idx, sampleVars, contribution>>

\* lines 416-418: the three vectors of the year, drawn one after the other
SampleYear ==
    /\ pc = "year"
    /\ LET seq == complete_sequences[seq_idx + 1] IN
        /\ sp500_monthly_returns' = calculate_monthly_return(
                PctToFraction(seq.SP500.list[year_idx + 1]), SP500_std, rng)
        /\ nasdaq_monthly_returns' = calculate_monthly_return(
                PctToFraction(seq.NASDAQ100.list[year_idx + 1]), NASDAQ_std,
                RngAfter(rng, MonthsPerYear))
        /\ TBILL_3M_monthly_returns' = calculate_monthly_return(
                PctToFraction(seq.TBILL_3M.list[year_idx + 1]), T_Bills_std,
                RngAfter(rng, 2 * MonthsPerYear))
    /\ rng' = RngAfter(rng, 3 * MonthsPerYear)
    /\ month_idx' = 0
    /\ pc' = "month"
    /\ UNCHANGED <<seqVars, contribVars, paramVars, appVars, irrVars, displayVars,
                   newtonVars, setupVars, seq_idx,
                   iteration, year_idx, runVars>>

\* lines 421-494: one monthly transition, the quarterly check included
MonthStep ==
    /\ pc = "month"
    /\ LET current_month == Last(investment_breakdown.Month_Index)
           mix == RebalancedMix(current_month)
           amount == contribution_function(ContributionMonth(current_month))
       IN  /\ current_mix' = mix
           /\ contribution' = amount
           /\ contribution_calls' =
                Append(contribution_calls, ContributionMonth(current_month))
           /\ investment_breakdown' = NextBreakdown(current_month, amount, mix)
    /\ IF month_idx + 1 < MonthsPerYear
       THEN /\ month_idx' = month_idx + 1
            /\ year_idx' = year_idx
            /\ pc' = "month"
       ELSE /\ month_idx' = month_idx
            /\ year_idx' = year_idx + 1
            /\ pc' = IF year_idx + 1 < YearsPerRun THEN "year" ELSE "record"
    /\ UNCHANGED <<seqVars, contribVars, paramVars, appVars, irrVars, displayVars,
                   newtonVars, rng, setupVars, seq_idx,
                   iteration, sampleVars>>

\* (a variant that tags the run with the sequence index twice)
RunTagSequenceOnly == [iteration |-> seq_idx, sequence_index |-> seq_idx]

\* the (iteration, seq_idx) a finished run is recorded under
RunTag == [iteration |-> iteration, sequence_index |-> seq_idx]

\* lines 496-500: the run joins the result set; the loops move on
RecordRun ==
    /\ pc = "record"
    /\ LET seq == complete_sequences[seq_idx + 1] IN
        simulation_results' =
            [iteration |-> Append(simulation_results.iteration, RunTag.iteration),
             sequence_index |->
                Append(simulation_results.sequence_index, RunTag.sequence_index),
             sequence_start_year |->
                Append(simulation_results.sequence_start_year, seq.start_year),
             sequence_end_year |->
                Append(simulation_results.sequence_end_year, seq.end_year),
             result_dict |-> Append(simulation_results.result_dict, investment_breakdown)]
    /\ IF iteration + 1 < total_iterations
       THEN /\ iteration' = iteration + 1
            /\ seq_idx' = seq_idx
            /\ pc' = "run"
       ELSE /\ iteration' = 0
            /\ seq_idx' = seq_idx + 1
            /\ pc' = IF seq_idx + 1 < Len(complete_sequences) THEN "run" ELSE "return"
    /\ UNCHANGED <<seqVars, contribVars, paramVars, appVars, irrVars, displayVars,
                   newtonVars, rng, HYSA_monthly_returns,
                   target_mix, year_idx, month_idx, sampleVars, runVars>>

----------------------------------------------------------------------------
(* The caller's portfolio loop and calculate_all_irrs *)

\* app.py, for i in enabled_portfolios: the caller keeps the results and runs
\* the next enabled portfolio, here one configured like the one before, in a
\* fresh frame of run_investment_simulation; the generator is not reset
NextPortfolio ==
    /\ pc = "extracted"
    /\ portfolios_left > 0
    /\ previous_results' = simulation_results
    /\ portfolios_left' = portfolios_left - 1
    /\ simulation_results' = NoResults
    /\ HYSA_monthly_returns' = 0
    /\ target_mix' = NoMix
    /\ seq_idx' = 0
    /\ iteration' = 0
    /\ year_idx' = 0
    /\ month_idx' = 0
    /\ investment_breakdown' = NoBreakdown
    /\ current_mix' = NoMix
    /\ sp500_monthly_returns' = <<>>
    /\ nasdaq_monthly_returns' = <<>>
    /\ TBILL_3M_monthly_returns' = <<>>
    /\ contribution' = 0
    /\ contribution_calls' = <<>>
    /\ pc' = "call"
    /\ UNCHANGED <<seqVars, contribVars, paramVars, rng, irrVars, displayVars,
                   newtonVars>>

\* the sum of the five balances of point j of a run
FiveBalanceTotal(result_dict, j) ==
    result_dict.SP500[j] + result_dict.NASDAQ100[j] + result_dict.TBILL_3M[j]
        + result_dict.HYSA[j] + result_dict.Emergency_fund[j]

\* a time in years, in twelfths of a year
Twelfths(years) == years * MonthsPerYear

\* total_months = len(result_dict['Month_Index']) - 1
TotalMonths(result_dict) == Len(result_dict.Month_Index) - 1

\* lines 137-161: the portfolio's cash flows of one run
PortfolioCashFlows(result_dict) ==
    <<-FiveBalanceTotal(result_dict, 1)>>
        \o [k \in 1..TotalMonths(result_dict) |-> -contribution_function(k - 1)]
        \o <<FiveBalanceTotal(result_dict, Len(result_dict.Month_Index))>>

\* the time of each cash flow: 0, month_idx / 12 for month_idx = 1.., then 15
CashFlowTimes(result_dict) ==
    <<0>> \o [k \in 1..TotalMonths(result_dict) |-> k] \o <<Twelfths(YearsPerRun)>>

\* (a variant that takes the whole change of the Baseline as the contribution)
BaselineChange(prev_baseline, curr_baseline, rate) == curr_baseline - prev_baseline

\* (curr_baseline / (1 + HYSA_monthly_returns)) - prev_baseline
BaselineContribution(prev_baseline, curr_baseline, rate) ==
    ((curr_baseline * Scale) \div (Scale + rate)) - prev_baseline

\* lines 168-184: the Baseline's cash flows of one run
BaselineCashFlows(result_dict, rate) ==
    <<-result_dict.Baseline[1]>>
        \o [k \in 1..TotalMonths(result_dict) |->
                -BaselineContribution(result_dict.Baseline[k],
                                      result_dict.Baseline[k + 1], rate)]
        \o <<Last(result_dict.Baseline)>>

----------------------------------------------------------------------------
(* The aggregation of a result set: extract_simulation_data, the summary,
   calculate_milestone_statistics and the sequence ranking *)

RECURSIVE SumSeq(_)
SumSeq(s) == IF s = <<>> THEN 0 ELSE s[1] + SumSeq(Tail(s))

RECURSIVE InsertAscending(_, _)
InsertAscending(sorted, x) ==
    IF sorted = <<>> \/ x < sorted[1]
    THEN <<x>> \o sorted
    ELSE <<sorted[1]>> \o InsertAscending(Tail(sorted), x)

RECURSIVE SortAscending(_)
SortAscending(s) ==
    IF s = <<>> THEN <<>>
    ELSE InsertAscending(SortAscending(SubSeq(s, 1, Len(s) - 1)), s[Len(s)])

\* the positions from..Len(mask) at which the mask is true, in order
RECURSIVE MaskedPositions(_, _)
MaskedPositions(mask, from) ==
    IF from > Len(mask) THEN <<>>
    ELSE (IF mask[from] THEN <<from>> ELSE <<>>) \o MaskedPositions(mask, from + 1)

\* np.percentile(a, q) for an integer q: linear interpolation between the two
\* nearest ranks of the sorted array; nan for an empty array
Percentile(a, q) ==
    IF a = <<>> THEN NaN
    ELSE LET sorted == SortAscending(a)
             pos == (Len(a) - 1) * q
             lo == (pos \div 100) + 1
             frac == pos % 100
         IN Num(IF frac = 0 THEN sorted[lo]
                ELSE sorted[lo] + (((sorted[lo + 1] - sorted[lo]) * frac) \div 100))

\* np.median(a)
Median(a) == Percentile(a, 50)

\* np.mean(a); nan for an empty array
Mean(a) == IF a = <<>> THEN NaN ELSE Num(SumSeq(a) \div Len(a))

\* x - y on floats
Minus(x, y) == IF isnan(x) \/ isnan(y) THEN NaN ELSE Num(x.value - y.value)

\* np.sum(a >= b): the comparison a tie would pass
CountAtLeast(a, b) == Cardinality({i \in 1..Len(a) : a[i] >= b[i]})

\* np.sum(a > b) for two arrays of one length
CountGreater(a, b) == Cardinality({i \in 1..Len(a) : a[i] > b[i]})

\* np.sum(final_values > baselines) / len(final_values) * 100, in percent; the
\* quotient 0 / 0 of an empty array is nan
BeatBaselinePct(values, baselines) ==
    IF values = <<>> THEN NaN
    ELSE Num((CountGreater(values, baselines) * 100 * Scale) \div Len(values))

\* lines 95-120: per run the final five-balance total, the final Baseline, the
\* sequence index and the series of five-balance totals
extract_simulation_data(results) ==
    LET runs == results.result_dict IN
    [final_values |->
        [i \in 1..Len(runs) |-> FiveBalanceTotal(runs[i], Len(runs[i].Month_Index))],
     baselines |-> [i \in 1..Len(runs) |-> Last(runs[i].Baseline)],
     all_timeseries |->
        [i \in 1..Len(runs) |->
            [j \in 1..Len(runs[i].Month_Index) |-> FiveBalanceTotal(runs[i], j)]],
     sequence_indices |-> [i \in 1..Len(runs) |-> results.sequence_index[i]]]

\* app.py line 392: the data of the portfolio whose simulation has returned
ExtractData ==
    /\ pc = "return"
    /\ data' = extract_simulation_data(simulation_results)
    /\ pc' = "extracted"
    /\ UNCHANGED <<seqVars, contribVars, engineVars, appVars, irrVars,
                   beat_baseline_pct, milestone_idx, milestone_values,
                   milestone_baselines, stats, sorted_sequences, newtonVars>>

\* app.py lines 493 and 632
milestones == <<3, 5, 7, 10, 15>>

\* app.py lines 432-436: the summary of the last portfolio
Summary ==
    /\ pc = "extracted"
    /\ portfolios_left = 0
    /\ beat_baseline_pct' = BeatBaselinePct(data.final_values, data.baselines)
    /\ milestone_idx' = 0
    /\ pc' = "milestones"
    /\ UNCHANGED <<seqVars, contribVars, engineVars, appVars, irrVars, data,
                   milestone_values, milestone_baselines, stats,
                   sorted_sequences, newtonVars>>

\* the month index read for a year, as if the trajectory had a point per year
MonthIndexOfYearPoint(year) == year

\* month_index = year * 12
MonthIndexOf(year) == year * MonthsPerYear

\* lines 206-213: the runs with more than month_index points, in order
MilestoneRuns(results, month_index) ==
    MaskedPositions([i \in 1..Len(results.result_dict) |->
                        Len(results.result_dict[i].Month_Index) > month_index], 1)

MilestoneValues(results, year) ==
    LET runs == MilestoneRuns(results, MonthIndexOf(year)) IN
    [i \in 1..Len(runs) |->
        FiveBalanceTotal(results.result_dict[runs[i]], MonthIndexOf(year) + 1)]

MilestoneBaselines(results, year) ==
    LET runs == MilestoneRuns(results, MonthIndexOf(year)) IN
    [i \in 1..Len(runs) |-> results.result_dict[runs[i]].Baseline[MonthIndexOf(year) + 1]]

\* lines 218-225
MilestoneStatistics(values, baselines) ==
    [p25 |-> Percentile(values, 25),
     p50 |-> Percentile(values, 50),
     p75 |-> Percentile(values, 75),
     avg_baseline |-> Mean(baselines),
     beat_baseline_pct |-> BeatBaselinePct(values, baselines),
     median_gain |-> Minus(Percentile(values, 50), Mean(baselines))]

\* calculate_milestone_statistics for the next year of the list.  On an empty
\* sample np.percentile gives nan in some numpy releases and raises IndexError
\* in others; nothing before line 218 looks at the size of the sample.
Milestone ==
    /\ pc = "milestones"
    /\ LET year == milestones[milestone_idx + 1]
           values == MilestoneValues(simulation_results, year)
           baselines == MilestoneBaselines(simulation_results, year)
       IN /\ milestone_values' = values
          /\ milestone_baselines' = baselines
          /\ \/ /\ stats' = MilestoneStatistics(values, baselines)
                /\ milestone_idx' = milestone_idx + 1
                /\ pc' = IF milestone_idx + 1 < Len(milestones)
                         THEN "milestones" ELSE "ranking"
             \/ /\ values = <<>>
                /\ pc' = "raised"
                /\ UNCHANGED <<stats, milestone_idx>>
    /\ UNCHANGED <<seqVars, contribVars, engineVars, appVars, irrVars, data,
                   beat_baseline_pct, sorted_sequences, newtonVars>>

\* seq_mask = sequence_indices == seq_idx
seq_mask(d, s) == [i \in 1..Len(d.sequence_indices) |-> d.sequence_indices[i] = s]

\* final_values[sequence_indices == seq_idx]
SeqFinals(d, s) ==
    LET at == MaskedPositions(seq_mask(d, s), 1)
    IN [i \in 1..Len(at) |-> d.final_values[at[i]]]

\* baselines[sequence_indices == seq_idx]
SeqBaselines(d, s) ==
    LET at == MaskedPositions(seq_mask(d, s), 1)
    IN [i \in 1..Len(at) |-> d.baselines[at[i]]]

\* the median over all runs, whatever their sequence
GroupMedianOfAll(d, s) == Median(d.final_values).value

\* np.median(seq_finals)
GroupMedian(d, s) == Median(SeqFinals(d, s)).value

\* app.py lines 895-913: an entry per sequence with at least one run, in the
\* order of the sequence indices
RECURSIVE sequence_performance(_, _, _)
sequence_performance(d, seqs, s) ==
    IF s >= Len(seqs) THEN <<>>
    ELSE (IF Len(SeqFinals(d, s)) > 0
          THEN <<[seq_idx |-> s,
                  start_year |-> seqs[s + 1].start_year,
                  end_year |-> seqs[s + 1].end_year,
                  avg_final |-> Mean(SeqFinals(d, s)).value,
                  median_final |-> GroupMedian(d, s),
                  avg_baseline |-> Mean(SeqBaselines(d, s)).value,
                  beat_baseline_pct |->
                      BeatBaselinePct(SeqFinals(d, s), SeqBaselines(d, s)).value]>>
          ELSE <<>>)
         \o sequence_performance(d, seqs, s + 1)

\* sorted(..., key=median_final, reverse=True): stable, so entries of equal
\* median keep their order
RECURSIVE InsertByMedian(_, _)
InsertByMedian(sorted, x) ==
    IF sorted = <<>> \/ x.median_final > sorted[1].median_final
    THEN <<x>> \o sorted
    ELSE <<sorted[1]>> \o InsertByMedian(Tail(sorted), x)

RECURSIVE SortByMedian(_)
SortByMedian(entries) ==
    IF entries = <<>> THEN <<>>
    ELSE InsertByMedian(SortByMedian(SubSeq(entries, 1, Len(entries) - 1)),
                        entries[Len(entries)])

\* app.py lines 887-916: the ranking of the sequences
RankSequences ==
    /\ pc = "ranking"
    /\ sorted_sequences' = SortByMedian(sequence_performance(data, complete_sequences, 0))
    /\ pc' = "irrs"
    /\ UNCHANGED <<seqVars, contribVars, engineVars, appVars, irrVars, data,
                   beat_baseline_pct, milestone_idx, milestone_values,
                   milestone_baselines, stats, newtonVars>>

----------------------------------------------------------------------------
(* calculate_all_irrs over the last result set *)

\* most solver failures explored in one call of calculate_all_irrs
MaxFailures == 2

\* what newton does on the flows of run k: it raises (a zero derivative, or no
\* convergence within maxiter), or it returns a root.  The root is not
\* computed here; it is represented by the number of the run.
NewtonOutcomes(k) == {[raised |-> TRUE, root |-> 0], [raised |-> FALSE, root |-> k]}

\* lines 79-83: the root, or np.nan when newton raised
calculate_irr(result) == IF result.raised THEN NaN ELSE Num(result.root)

\* an output list that takes every result, nan or not
KeepIrrAlways(x) == TRUE

\* if not np.isnan(irr)
KeepIrr(x) == ~isnan(x)

\* irr * 100
Percent(x) == IF isnan(x) THEN NaN ELSE Num(x.value * 100)

\* lines 164-165 and 187-188
AppendIrr(list, x) == IF KeepIrr(x) THEN Append(list, Percent(x)) ELSE list

\* the solves that have failed so far in this call
Failures == (2 * irr_idx) - Len(irr_returns) - Len(baseline_irr_returns)

Raised(result) == IF result.raised THEN 1 ELSE 0

\* app.py line 953: once every enabled portfolio has run, the display
\* computes the cash rate again and calls calculate_all_irrs
StartIrrs ==
    /\ pc = "irrs"
    /\ HYSA_monthly_returns' = calculate_monthly_return(hysa_apy, 0, rng)[1]
    /\ rng' = RngAfter(rng, MonthsPerYear)
    /\ irr_idx' = 0
    /\ irr_returns' = <<>>
    /\ baseline_irr_returns' = <<>>
    /\ pc' = IF Len(simulation_results.result_dict) > 0 THEN "irr" ELSE "done"
    /\ UNCHANGED <<seqVars, contribVars, paramVars, appVars, simulation_results,
                   target_mix, loopVars, sampleVars, runVars, flowVars,
                   baseline_irr, displayVars, newtonVars>>

\* one pass of calculate_all_irrs' loop over the result set: the four lists
\* handed to calculate_irr, and what the two solves add to the output lists
IrrOfRun ==
    /\ pc = "irr"
    /\ \E portfolio_result, baseline_result \in NewtonOutcomes(irr_idx + 1) :
        /\ Failures + Raised(portfolio_result) + Raised(baseline_result) <= MaxFailures
        /\ irr' = calculate_irr(portfolio_result)
        /\ baseline_irr' = calculate_irr(baseline_result)
    /\ irr_returns' = AppendIrr(irr_returns, irr')
    /\ baseline_irr_returns' = AppendIrr(baseline_irr_returns, baseline_irr')
    /\ LET result_dict == simulation_results.result_dict[irr_idx + 1] IN
        /\ cash_flows' = PortfolioCashFlows(result_dict)
        /\ times' = CashFlowTimes(result_dict)
        /\ baseline_cash_flows' = BaselineCashFlows(result_dict, HYSA_monthly_returns)
        /\ baseline_times' = CashFlowTimes(result_dict)
    /\ irr_idx' = irr_idx + 1
    /\ pc' = IF irr_idx + 1 < Len(simulation_results.result_dict) THEN "irr" ELSE "done"
    /\ UNCHANGED <<seqVars, contribVars, engineVars, appVars, displayVars, p0, itr>>

----------------------------------------------------------------------------
(* calculate_irr: Newton's method on the net present value *)

\* rates are kept to a hundredth of a percent, amounts of npv to a hundredth
\* of a unit
RateScale == 100 * 100
PerUnit == 100

\* newton(npv, 0.05, ..., maxiter=100)
StartingGuess == 5 * (RateScale \div 100)
maxiter == 100

\* a time in twelfths of a year, in years (the solver is explored on flows
\* at whole years)
YearsOf(t) == t \div MonthsPerYear

\* (1 + rate) ** n for a whole n, given 1 + rate
RECURSIVE RatePow(_, _)
RatePow(y, n) == IF n = 0 THEN RateScale ELSE (RatePow(y, n - 1) * y) \div RateScale

\* cf / (1 + rate) ** n
DiscountedFlow(cf, rate, n) == (cf * PerUnit * RateScale) \div RatePow(RateScale + rate, n)

\* (a variant that discounts at simple interest: cf / (1 + rate * t))
npv_simple_interest(flows, at, rate) ==
    SumSeq([i \in 1..Len(flows) |->
        (flows[i] * PerUnit * RateScale) \div (RateScale + rate * YearsOf(at[i]))])

\* line 74: sum(cf / (1 + rate) ** t for cf, t in zip(cash_flows, times))
npv(flows, at, rate) ==
    SumSeq([i \in 1..Len(flows) |-> DiscountedFlow(flows[i], rate, YearsOf(at[i]))])

\* line 77: sum(-t * cf / (1 + rate) ** (t + 1) for cf, t in ...)
npv_derivative(flows, at, rate) ==
    SumSeq([i \in 1..Len(flows) |->
        -(YearsOf(at[i]) * DiscountedFlow(flows[i], rate, YearsOf(at[i]) + 1))])

\* fval / fder
NewtonStepSize(fval, fder) == (fval * RateScale) \div fder

\* the flows the solver is explored on: 100 paid at t = 0 and a terminal
\* value of 0 or of 100..(100 + 10 * MaxGain) received after 5 or 10 years,
\* alone or after 50 received at mid-term
MaxGain == 20

Horizons == {5, 10}

TerminalValues == {0} \cup {100 + 10 * g : g \in 0..MaxGain}

IrrInputs ==
    {[cash_flows |-> <<-100, b>>, times |-> <<0, Twelfths(T)>>] :
        b \in TerminalValues, T \in Horizons}
    \cup
    {[cash_flows |-> <<-100, 50, b>>, times |-> <<0, Twelfths(5), Twelfths(10)>>] :
        b \in TerminalValues}

InitIrr ==
    /\ pc = "calculate_irr"
    /\ \E input \in IrrInputs :
        /\ cash_flows = input.cash_flows
        /\ times = input.times
    /\ baseline_cash_flows = <<>>
    /\ baseline_times = <<>>
    /\ irr_idx = 0
    /\ irr_returns = <<>>
    /\ baseline_irr_returns = <<>>
    /\ baseline_irr = Num(0)
    /\ NewtonIdle
    /\ DisplayIdle
    /\ ParamsIdle
    /\ EngineLocalsIdle
    /\ ContribIdle
    /\ market_returns = [a \in Assets |-> <<>>]
    /\ sequences = <<>>
    /\ complete_sequences = <<>>

\* line 80: newton starts from the guess
StartNewton ==
    /\ pc = "calculate_irr"
    /\ p0' = StartingGuess
    /\ itr' = 0
    /\ pc' = "newton"
    /\ UNCHANGED <<seqVars, contribVars, engineVars, appVars, irrVars, displayVars, irr>>

\* one iteration of newton, and lines 81-83 when it ends: it returns the
\* estimate when npv is zero there or when the step no longer moves it (the
\* tolerance, here the resolution of the rates); it raises when the
\* derivative is zero, when 1 + rate is not positive, and after maxiter
\* iterations; calculate_irr turns an exception into nan
NewtonIteration ==
    /\ pc = "newton"
    /\ LET fval == npv(cash_flows, times, p0)
           fder == npv_derivative(cash_flows, times, p0)
           p == p0 - NewtonStepSize(fval, fder)
           Return(result) ==
                /\ irr' = calculate_irr(result)
                /\ pc' = "return"
                /\ UNCHANGED <<p0, itr>>
       IN IF itr >= maxiter \/ RateScale + p0 <= 0
          THEN Return([raised |-> TRUE, root |-> 0])
          ELSE IF fval = 0
          THEN Return([raised |-> FALSE, root |-> p0])
          ELSE IF fder = 0
          THEN Return([raised |-> TRUE, root |-> 0])
          ELSE IF p = p0
          THEN Return([raised |-> FALSE, root |-> p])
          ELSE /\ p0' = p
               /\ itr' = itr + 1
               /\ UNCHANGED <<pc, irr>>
    /\ UNCHANGED <<seqVars, contribVars, engineVars, appVars, irrVars, displayVars>>

NextIrr == StartNewton \/ NewtonIteration

SpecIrr == InitIrr /\ [][NextIrr]_vars

----------------------------------------------------------------------------
(* The calls of run_investment_simulation the model explores *)

\* most iterations per sequence
MaxIterations == 2
\* the seeds of the random generator
MaxSeed == 1

\* the table of the engine's runs: three full series over 17 years, which
\* give two complete sequences
EngineTable == [a \in Assets |-> Series(a, 1, WindowSpan + 3, 0)]

SpreadMix == [SP500 |-> 600, NASDAQ |-> 200, TBill |-> 100, HYSA |-> 100]
HalfCashMix == [SP500 |-> 500, NASDAQ |-> 0, TBill |-> 0, HYSA |-> 500]
AllCashMix == [SP500 |-> 0, NASDAQ |-> 0, TBill |-> 0, HYSA |-> 1000]

FlatSchedule == SortByStart(<<[contribution |-> 300, start_month |-> 0]>>)
SteppedSchedule ==
    SortByStart(<<[contribution |-> 100, start_month |-> 0],
                  [contribution |-> 200, start_month |-> 20],
                  [contribution |-> 400, start_month |-> 7]>>)

\* the three volatilities (SP500_std, NASDAQ_std, T_Bills_std): none, some,
\* or a quarter of the largest the sliders allow
Calm == <<0, 0, 0>>
Volatile == <<10, 20, 1>>
Stormy == <<50, 50, 5>>

\* a portfolio with little cash, and a schedule that is large next to the
\* initial investment
MostlyStockMix == [SP500 |-> 900, NASDAQ |-> 0, TBill |-> 0, HYSA |-> 100]
HeavySchedule == SortByStart(<<[contribution |-> 1000, start_month |-> 0]>>)

\* a single period that contributes nothing
NoContributions == SortByStart(<<[contribution |-> 0, start_month |-> 0]>>)

\* a table whose series all miss one year in the middle: no window of 15
\* years is complete
GappedTable == [a \in Assets |-> Series(a, 1, WindowSpan + 3, 8)]

\* a table that starts and ends a year later
LaterTable == [a \in Assets |-> Series(a, 2, WindowSpan + 4, 0)]

\* the calls explored.  A volatile spread portfolio under every seed, with and
\* without rebalancing, for the most iterations, and once with threshold 0; a
\* calm half-cash portfolio, with and without rebalancing, which the caller
\* runs for two portfolios configured alike; a calm all-cash portfolio with
\* and without rebalancing (threshold 0); a stormy portfolio with little
\* cash and heavy contributions, rebalanced at the 1% threshold; two calls
\* without contributions, one all in cash with nothing invested at the
\* start; a call over a table that has no complete sequence; a volatile
\* portfolio of mostly stock over the later table at a lower cash rate, where
\* the second sequence ends higher and some runs beat their Baseline
Calls ==
    {[mix |-> SpreadMix, periods |-> SteppedSchedule, vol |-> Volatile,
      seed |-> r, rebalancing |-> b, iterations |-> MaxIterations,
      threshold |-> 50, start |-> 10000, portfolios |-> 1,
      table |-> EngineTable, apy |-> 49] : r \in 0..MaxSeed, b \in BOOLEAN}
    \cup
    {[mix |-> SpreadMix, periods |-> SteppedSchedule, vol |-> Volatile,
      seed |-> 0, rebalancing |-> TRUE, iterations |-> 1,
      threshold |-> 0, start |-> 10000, portfolios |-> 1, table |-> EngineTable, apy |-> 49]}
    \cup
    {[mix |-> HalfCashMix, periods |-> SteppedSchedule, vol |-> Calm,
      seed |-> 0, rebalancing |-> b, iterations |-> MaxIterations,
      threshold |-> 10, start |-> 10000, portfolios |-> 2,
      table |-> EngineTable, apy |-> 49] : b \in BOOLEAN}
    \cup
    {[mix |-> AllCashMix, periods |-> FlatSchedule, vol |-> Calm,
      seed |-> 0, rebalancing |-> b, iterations |-> 1,
      threshold |-> 0, start |-> 10000, portfolios |-> 1,
      table |-> EngineTable, apy |-> 49] : b \in BOOLEAN}
    \cup
    {[mix |-> MostlyStockMix, periods |-> HeavySchedule, vol |-> Stormy,
      seed |-> r, rebalancing |-> TRUE, iterations |-> 1,
      threshold |-> 10, start |-> 1000, portfolios |-> 1,
      table |-> EngineTable, apy |-> 49] : r \in 0..MaxSeed}
    \cup
    {[mix |-> AllCashMix, periods |-> NoContributions, vol |-> Calm,
      seed |-> 0, rebalancing |-> FALSE, iterations |-> 1,
      threshold |-> 50, start |-> 0, portfolios |-> 1, table |-> EngineTable, apy |-> 49]}
    \cup
    {[mix |-> SpreadMix, periods |-> NoContributions, vol |-> Calm,
      seed |-> 0, rebalancing |-> FALSE, iterations |-> 1,
      threshold |-> 50, start |-> 10000, portfolios |-> 1, table |-> EngineTable, apy |-> 49]}
    \cup
    {[mix |-> SpreadMix, periods |-> FlatSchedule, vol |-> Calm,
      seed |-> 0, rebalancing |-> FALSE, iterations |-> 1,
      threshold |-> 50, start |-> 10000, portfolios |-> 1, table |-> GappedTable, apy |-> 49]}
    \cup
    {[mix |-> MostlyStockMix, periods |-> FlatSchedule, vol |-> Volatile,
      seed |-> 0, rebalancing |-> FALSE, iterations |-> MaxIterations,
      threshold |-> 50, start |-> 10000, portfolios |-> 1, table |-> LaterTable,
      apy |-> 30]}

Init ==
    /\ pc = "call"
    /\ lookup_month = 0
    /\ applicable_contribution = 0
    /\ emergency_fund_start = 5000
    /\ \E c \in Calls :
        /\ hysa_apy = c.apy
        /\ investment_mix = c.mix
        /\ investment_start = c.start
        /\ contribution_periods = c.periods
        /\ SP500_std = c.vol[1]
        /\ NASDAQ_std = c.vol[2]
        /\ T_Bills_std = c.vol[3]
        /\ rng = c.seed
        /\ enable_rebalancing = c.rebalancing
        /\ rebalancing_threshold = c.threshold
        /\ total_iterations = c.iterations
        /\ portfolios_left = c.portfolios - 1
        /\ market_returns = c.table
    /\ sequences = get_15_year_sequences(market_returns)
    /\ complete_sequences = FilterComplete(sequences)
    /\ previous_results = NoResults
    /\ IrrIdle
    /\ DisplayIdle
    /\ NewtonIdle
    /\ EngineLocalsIdle

Next ==
    \/ Setup \/ StartRun \/ SampleYear \/ MonthStep \/ RecordRun
    \/ ExtractData \/ NextPortfolio \/ Summary \/ Milestone \/ RankSequences
    \/ StartIrrs \/ IrrOfRun

Spec == Init /\ [][Next]_vars

----------------------------------------------------------------------------
(* Claims about the runs of run_investment_simulation *)

\* the runs so far: those in the result set (by position) and, as number 0,
\* the one being built
RecordedRuns == 1..Len(simulation_results.result_dict)

AllRuns == RecordedRuns \cup (IF investment_breakdown.Month_Index # <<>> THEN {0} ELSE {})

Run(k) == IF k = 0 THEN investment_breakdown ELSE simulation_results.result_dict[k]

\* the points of a full run: months 0..180
RunPoints == YearsPerRun * MonthsPerYear + 1

\* c is the monthly rate of the cash-equivalent APY: the largest rate that
\* compounds over 12 months to no more than hysa_apy
IsCashRate(c) ==
    /\ FxPow(Scale + c, 12, 4 * Scale) <= Scale + hysa_apy
    /\ FxPow(Scale + c + 1, 12, 4 * Scale) > Scale + hysa_apy

\* the schedule amount of total elapsed month m
ScheduledAmount(m) == get_contribution_for_month(m, contribution_periods)

\* a step is the monthly transition out of month m
IsMonthlyTransition(m) ==
    /\ m >= 0
    /\ Len(investment_breakdown.Month_Index) = m + 1
    /\ Len(investment_breakdown'.Month_Index) = m + 2

\* C5: in every run the month-0 state is: each investable balance is
\* investment_start times its mix fraction, the emergency fund is
\* emergency_fund_start, the Baseline is investment_start + emergency_fund_start.
C5_MonthZeroState ==
    \A k \in AllRuns : LET run == Run(k) IN
        /\ run.Month_Index[1] = 0
        /\ run.SP500[1] = (investment_start * investment_mix.SP500) \div Scale
        /\ run.NASDAQ100[1] = (investment_start * investment_mix.NASDAQ) \div Scale
        /\ run.TBILL_3M[1] = (investment_start * investment_mix.TBill) \div Scale
        /\ run.HYSA[1] = (investment_start * investment_mix.HYSA) \div Scale
        /\ run.Emergency_fund[1] = emergency_fund_start
        /\ run.Baseline[1] = investment_start + emergency_fund_start

\* the whole result set of a call with rebalancing, every run past month 0
C5_Witness ==
    /\ pc = "return"
    /\ enable_rebalancing
    /\ Len(simulation_results.result_dict) >= 2
    /\ \A k \in RecordedRuns : Run(k).SP500[1] > 0 /\ Len(Run(k).SP500) > 1

\* C6: every run ends with exactly 181 points, Month_Index being 0, 1, ..., 180
\* and the six balance series having 181 entries each; during a run the seven
\* series always have equal length (one point per completed transition).
C6_RunLength ==
    /\ \A k \in AllRuns : LET run == Run(k) IN
        /\ \A i \in 1..Len(run.Month_Index) : run.Month_Index[i] = i - 1
        /\ Len(run.SP500) = Len(run.Month_Index)
        /\ Len(run.NASDAQ100) = Len(run.Month_Index)
        /\ Len(run.TBILL_3M) = Len(run.Month_Index)
        /\ Len(run.HYSA) = Len(run.Month_Index)
        /\ Len(run.Emergency_fund) = Len(run.Month_Index)
        /\ Len(run.Baseline) = Len(run.Month_Index)
    /\ \A k \in RecordedRuns : Len(Run(k).Month_Index) = 181
    /\ pc = "record" => Len(investment_breakdown.Month_Index) = 181
    /\ pc = "year" => Len(investment_breakdown.Month_Index) = 12 * year_idx + 1
    /\ pc = "month" =>
        /\ Len(investment_breakdown.Month_Index) = 12 * year_idx + month_idx + 1
        /\ Len(investment_breakdown.Month_Index) < 181

\* a finished run about to join a result set that already holds runs
C6_Witness ==
    /\ pc = "record"
    /\ Len(simulation_results.result_dict) >= 1
    /\ Len(investment_breakdown.Month_Index) = 181
    /\ investment_breakdown.Month_Index[181] = 180

\* the balance after the transition out of month m, as the claims give it
GrownBalance(prev, amount, share, rate) ==
    ((prev + (amount * share) \div Scale) * (Scale + rate)) \div Scale

\* the values calculate_monthly_return may give for an annual percent return
\* and a volatility: the monthly compounding rate plus a draw
SampledFrom(pct, std) ==
    LET avg == AvgMonthlyReturn(pct \div 100) IN {avg + std * z : z \in -2..2}

\* every value of the vector is one calculate_monthly_return may give
AllSampledFrom(vector, pct, std) ==
    LET values == SampledFrom(pct, std)
    IN  /\ Len(vector) = 12
        /\ \A i \in 1..12 : vector[i] \in values

C7_Transition ==
    LET m == Len(investment_breakdown.Month_Index) - 1
        seq == complete_sequences[seq_idx + 1]
    IN  /\ IsMonthlyTransition(m) =>
            /\ investment_breakdown'.SP500[m + 2] =
                GrownBalance(investment_breakdown.SP500[m + 1], ScheduledAmount(m),
                             current_mix'.SP500, sp500_monthly_returns[(m % 12) + 1])
            /\ investment_breakdown'.NASDAQ100[m + 2] =
                GrownBalance(investment_breakdown.NASDAQ100[m + 1], ScheduledAmount(m),
                             current_mix'.NASDAQ, nasdaq_monthly_returns[(m % 12) + 1])
            /\ investment_breakdown'.TBILL_3M[m + 2] =
                GrownBalance(investment_breakdown.TBILL_3M[m + 1], ScheduledAmount(m),
                             current_mix'.TBill, TBILL_3M_monthly_returns[(m % 12) + 1])
            /\ UNCHANGED sampleVars
        /\ pc \in {"call", "run", "month", "record"} => UNCHANGED sampleVars
        /\ pc = "year" =>
            /\ m % 12 = 0
            /\ AllSampledFrom(sp500_monthly_returns',
                              seq.SP500.list[(m \div 12) + 1], SP500_std)
            /\ AllSampledFrom(nasdaq_monthly_returns',
                              seq.NASDAQ100.list[(m \div 12) + 1], NASDAQ_std)
            /\ AllSampledFrom(TBILL_3M_monthly_returns',
                              seq.TBILL_3M.list[(m \div 12) + 1], T_Bills_std)

\* C7: in the transition out of every month m, each volatile balance becomes
\* (balance + contribution(m) * activeMix[asset]) * (1 + r), r being element
\* m mod 12 of the vector sampled once, at the start of year m div 12, from the
\* asset's annual return number m div 12 of the active sequence.
C7_VolatileBalances == [][C7_Transition]_vars

\* late in the second sequence of a volatile call, the active mix rebalanced
C7_Witness ==
    /\ pc = "month"
    /\ seq_idx = 1
    /\ year_idx >= 2
    /\ month_idx >= 5
    /\ SP500_std > 0
    /\ current_mix # target_mix
    /\ sp500_monthly_returns[month_idx] # sp500_monthly_returns[month_idx + 1]

C8_Transition ==
    LET m == Len(investment_breakdown.Month_Index) - 1
    IN  IsMonthlyTransition(m) =>
            /\ IsCashRate(HYSA_monthly_returns)
            /\ investment_breakdown'.HYSA[m + 2] =
                GrownBalance(investment_breakdown.HYSA[m + 1], ScheduledAmount(m),
                             current_mix'.HYSA, HYSA_monthly_returns)
            /\ investment_breakdown'.Baseline[m + 2] =
                ((investment_breakdown.Baseline[m + 1] + ScheduledAmount(m))
                    * (Scale + HYSA_monthly_returns)) \div Scale

\* C8: in the transition out of every month m, with c the cash-equivalent
\* monthly rate, HYSA becomes (HYSA + contribution(m) * activeMix[HYSA]) * (1 + c)
\* and Baseline becomes (Baseline + contribution(m)) * (1 + c): the Baseline gets
\* the full contribution whatever the active mix and the rebalancing setting.
C8_CashAndBaseline == [][C8_Transition]_vars

\* a month of a rebalanced run whose cash share is no longer the target's
C8_Witness ==
    /\ pc = "month"
    /\ enable_rebalancing
    /\ current_mix.HYSA # target_mix.HYSA
    /\ contribution > 0
    /\ Len(investment_breakdown.Baseline) > 24
    /\ HYSA_monthly_returns > 0

\* C9: in every run the emergency fund of month m + 1 is that of month m times
\* (1 + c), c being the cash-equivalent monthly rate: no contribution, mix share
\* or rebalancing decision changes it.
C9_EmergencyFund ==
    /\ pc # "call" => IsCashRate(HYSA_monthly_returns)
    /\ \A k \in AllRuns : LET fund == Run(k).Emergency_fund IN
        \A i \in 1..(Len(fund) - 1) :
            fund[i + 1] = (fund[i] * (Scale + HYSA_monthly_returns)) \div Scale

\* a finished rebalanced run with contributions, its emergency fund grown
C9_Witness ==
    /\ pc = "record"
    /\ enable_rebalancing
    /\ current_mix # target_mix
    /\ contribution > 0
    /\ investment_breakdown.Emergency_fund[181] > emergency_fund_start

\* C10: within a run the contribution function is called once per monthly
\* transition, with the total elapsed months 0, 1, ..., 179 in ascending order,
\* and the amount applied in the transition out of month m is the schedule's
\* amount for m, whatever the sequence, the iteration and the position in the
\* year.
C10_ContributionCalls ==
    LET n == Len(investment_breakdown.Month_Index)
    IN  /\ Len(contribution_calls) = (IF n >= 1 THEN n - 1 ELSE 0)
        /\ \A i \in 1..Len(contribution_calls) : contribution_calls[i] = i - 1
        /\ n >= 2 => contribution = ScheduledAmount(n - 2)
        /\ pc = "record" => Len(contribution_calls) = 180

\* the last run of a call with a stepped schedule: second sequence, second
\* iteration, all 180 lookups made
C10_Witness ==
    /\ pc = "record"
    /\ seq_idx = 1
    /\ iteration = 1
    /\ Len(contribution_periods) = 3
    /\ contribution_calls[180] = 179
    /\ contribution = 200

----------------------------------------------------------------------------
(* Claims about the rebalancing of the contribution split *)

\* the month the next monthly transition leaves
CurrentMonth == Len(investment_breakdown.Month_Index) - 1

\* the drift of an asset: its fraction of the four-asset total minus its
\* target fraction
Drift(asset) == current_allocation[asset] - target_mix[asset]

\* the run is at a quarterly checkpoint at which the allocation is defined
AtCheckpoint ==
    /\ pc = "month"
    /\ enable_rebalancing
    /\ CurrentMonth > 0
    /\ CurrentMonth % 3 = 0
    /\ total_value > 0

C11_Transition ==
    /\ IsMonthlyTransition(CurrentMonth) =>
        /\ current_mix' # current_mix =>
            enable_rebalancing /\ CurrentMonth > 0 /\ CurrentMonth % 3 = 0
        /\ ~enable_rebalancing => current_mix' = target_mix
    /\ pc \in {"year", "record", "irr"} => current_mix' = current_mix

\* C11: the active mix changes only in a transition out of a month m > 0 with
\* m mod 3 = 0 while rebalancing is enabled; every other transition, and every
\* step between transitions of a run, leaves it as it is, and with rebalancing
\* disabled it is the target mix in every transition.
C11_MixChangesAtCheckpoints == [][C11_Transition]_vars

\* a rebalanced mix in force at a month that is no checkpoint
C11_Witness ==
    /\ pc = "month"
    /\ enable_rebalancing
    /\ CurrentMonth % 3 = 1
    /\ CurrentMonth > 12
    /\ current_mix # target_mix

C12_Transition ==
    (/\ AtCheckpoint
     /\ \A asset \in MixAssets : Abs(Drift(asset)) <= rebalancing_threshold)
        => current_mix' = current_mix

\* C12: at a checkpoint where no asset's |drift| is strictly greater than the
\* threshold (a drift equal to the threshold does not count) the active mix is
\* left exactly as it was, also when an earlier rebalancing produced it.
C12_NoDriftNoChange == [][C12_Transition]_vars

\* a checkpoint whose largest |drift| equals the threshold, the active mix
\* being one an earlier rebalancing produced
C12_Witness ==
    /\ AtCheckpoint
    /\ \A asset \in MixAssets : Abs(Drift(asset)) <= rebalancing_threshold
    /\ \E asset \in MixAssets : Abs(Drift(asset)) = rebalancing_threshold
    /\ current_mix # target_mix

\* the rule's numerator of an asset: target + 0.5 * (-drift) / P, P being the
\* sum of the positive values of -drift
RuleNumerator(asset) ==
    LET P == Pos(-Drift("SP500")) + Pos(-Drift("NASDAQ"))
                + Pos(-Drift("TBill")) + Pos(-Drift("HYSA"))
    IN  target_mix[asset] + (((-Drift(asset) * Scale) \div P) * (Scale \div 2)) \div Scale

\* the rule's mix: each numerator over the sum S of the four
RuleMix ==
    LET S == RuleNumerator("SP500") + RuleNumerator("NASDAQ")
                + RuleNumerator("TBill") + RuleNumerator("HYSA")
    IN  [asset \in MixAssets |-> (RuleNumerator(asset) * Scale) \div S]

C13_Transition ==
    (/\ AtCheckpoint
     /\ \E asset \in MixAssets : Abs(Drift(asset)) > rebalancing_threshold)
        => /\ current_mix' = RuleMix
           /\ MixSum(current_mix') \in (Scale - 3)..Scale

\* C13: at a checkpoint where some asset's |drift| exceeds the threshold, the
\* new active mix of each asset a is (target[a] + 0.5 * (-drift[a]) / P) / S,
\* the drift measured against the original target mix, P the sum of the
\* positive values of -drift, S the sum of the four numerators; the four values
\* sum to 1 (up to the rounding of the four quotients).
C13_RebalancingRule == [][C13_Transition]_vars

\* a checkpoint that triggers while the active mix is already a rebalanced one
C13_Witness ==
    /\ AtCheckpoint
    /\ \E asset \in MixAssets : Abs(Drift(asset)) > rebalancing_threshold
    /\ current_mix # target_mix
    /\ RuleMix # current_mix
    /\ CurrentMonth > 12

\* series (after the step) still starts with all of recorded (before it)
KeepsRecorded(recorded, series) ==
    /\ Len(series) = Len(recorded) + 1
    /\ SubSeq(series, 1, Len(recorded)) = recorded

C14_Transition ==
    /\ pc = "month" =>
        /\ KeepsRecorded(investment_breakdown.Month_Index, investment_breakdown'.Month_Index)
        /\ KeepsRecorded(investment_breakdown.SP500, investment_breakdown'.SP500)
        /\ KeepsRecorded(investment_breakdown.NASDAQ100, investment_breakdown'.NASDAQ100)
        /\ KeepsRecorded(investment_breakdown.TBILL_3M, investment_breakdown'.TBILL_3M)
        /\ KeepsRecorded(investment_breakdown.HYSA, investment_breakdown'.HYSA)
        /\ KeepsRecorded(investment_breakdown.Emergency_fund,
                         investment_breakdown'.Emergency_fund)
        /\ KeepsRecorded(investment_breakdown.Baseline, investment_breakdown'.Baseline)
    /\ pc \in {"run", "year", "month", "record"} =>
        /\ target_mix' = target_mix
        /\ target_mix = investment_mix

\* C14: applying the rebalancing policy at a checkpoint month m changes the
\* active mix only: in the transition every balance recorded for months 0..m
\* in all six series stays as recorded (nothing is moved between the recorded
\* balances), and the target mix is never modified during the runs.
C14_OnlyTheMixChanges == [][C14_Transition]_vars

\* a checkpoint at which the policy is about to change the active mix
C14_Witness ==
    /\ AtCheckpoint
    /\ needs_rebalancing
    /\ total_adjustment > 0
    /\ RebalancedMix(CurrentMonth) # current_mix
    /\ CurrentMonth >= 6

C15_Transition ==
    (AtCheckpoint /\ rebalancing_threshold = 0) =>
        IF \E asset \in MixAssets : Drift(asset) # 0
        THEN current_mix' = RuleMix
        ELSE current_mix' = current_mix

\* C15: with rebalancing enabled and threshold 0, at every checkpoint where the
\* four-asset allocation differs from the target mix in any asset the active
\* mix is recomputed by the rebalancing rule; it is left untouched only where
\* the allocation equals the target exactly.
C15_ZeroThreshold == [][C15_Transition]_vars

\* a checkpoint of a threshold-0 call whose allocation is off target
C15_Witness ==
    /\ AtCheckpoint
    /\ rebalancing_threshold = 0
    /\ \E asset \in MixAssets : Drift(asset) # 0
    /\ RuleMix # current_mix
    /\ CurrentMonth >= 6

----------------------------------------------------------------------------
(* Claims about the balances and the runs *)

\* the six balance series of a run
BalanceSeries == {"SP500", "NASDAQ100", "TBILL_3M", "HYSA", "Emergency_fund", "Baseline"}

\* no monthly return in force is below -100%
ReturnsAboveMinus100 ==
    /\ HYSA_monthly_returns >= -Scale
    /\ \A i \in 1..Len(sp500_monthly_returns) : sp500_monthly_returns[i] >= -Scale
    /\ \A i \in 1..Len(nasdaq_monthly_returns) : nasdaq_monthly_returns[i] >= -Scale
    /\ \A i \in 1..Len(TBILL_3M_monthly_returns) : TBILL_3M_monthly_returns[i] >= -Scale

\* the preconditions of C16 on the inputs
NonNegativeInputs ==
    /\ investment_start >= 0
    /\ emergency_fund_start >= 0
    /\ hysa_apy >= 0
    /\ \A asset \in MixAssets : investment_mix[asset] >= 0
    /\ MixSum(investment_mix) = Scale
    /\ \A i \in 1..Len(contribution_periods) : contribution_periods[i].contribution >= 0

\* C16: with non-negative initial amounts, target mix (summing to 1) and
\* contributions and a cash rate >= 0, while every sampled monthly return is
\* >= -100% all six balances are >= 0 at every month of every run, rebalancing
\* enabled or not.
C16_BalancesNonNegative ==
    (NonNegativeInputs /\ ReturnsAboveMinus100) =>
        \A k \in AllRuns : \A series \in BalanceSeries :
            \A i \in 1..Len(Run(k)[series]) : Run(k)[series][i] >= 0

C17_Transition ==
    /\ pc = "run" =>
        /\ current_mix' = target_mix
        /\ investment_breakdown' = InitialBreakdown
    /\ IsMonthlyTransition(0) =>
        current_mix' = target_mix
    /\ pc \in {"run", "year", "month", "record"} =>
        /\ target_mix' = target_mix
        /\ complete_sequences' = complete_sequences
        /\ investment_mix' = investment_mix
        /\ \A k \in RecordedRuns :
            simulation_results'.result_dict[k] = simulation_results.result_dict[k]

\* C17: every (sequence, iteration) run starts from the same month-0 state with
\* the active mix reset to the target mix, so the first contribution of a run is
\* split by the target mix whatever an earlier run's rebalancing did; no step of
\* a run modifies the target mix, the input sequences or a recorded run.
C17_RunsIndependent == [][C17_Transition]_vars

\* a run about to start after a run that ended with a rebalanced mix
C17_Witness ==
    /\ pc = "run"
    /\ enable_rebalancing
    /\ Len(simulation_results.result_dict) >= 1
    /\ current_mix # target_mix

\* all three volatility parameters are 0
NoVolatility == SP500_std = 0 /\ NASDAQ_std = 0 /\ T_Bills_std = 0

\* the 12 values of vector all equal the monthly compounding rate of the
\* annual percent return pct
AllAtCompoundingRate(vector, pct) ==
    /\ Len(vector) = 12
    /\ \A i \in 1..12 : vector[i] = AvgMonthlyReturn(pct \div 100)

\* C18: with all three volatilities 0 the sampler's 12 values all equal the
\* monthly compounding rate; all iterations of one sequence within an invocation
\* are identical; and a second invocation with identical inputs, whatever the
\* state of the random generator, reproduces the first one's runs.
C18_DeterministicWithoutVolatility ==
    NoVolatility =>
        /\ pc = "month" =>
            LET seq == complete_sequences[seq_idx + 1] IN
                /\ AllAtCompoundingRate(sp500_monthly_returns, seq.SP500.list[year_idx + 1])
                /\ AllAtCompoundingRate(nasdaq_monthly_returns,
                                        seq.NASDAQ100.list[year_idx + 1])
                /\ AllAtCompoundingRate(TBILL_3M_monthly_returns,
                                        seq.TBILL_3M.list[year_idx + 1])
        /\ \A j, k \in RecordedRuns :
            simulation_results.sequence_index[j] = simulation_results.sequence_index[k]
                => Run(j) = Run(k)
        /\ previous_results # NoResults =>
            /\ \A k \in RecordedRuns : Run(k) = previous_results.result_dict[k]
            /\ pc \in {"return", "extracted", "milestones", "ranking", "irrs", "irr",
                      "done"} => simulation_results = previous_results

\* the second of two like invocations has returned: two sequences, at least two
\* iterations each, the last run ending on a rebalanced mix
C18_Witness ==
    /\ NoVolatility
    /\ pc = "return"
    /\ portfolios_left = 0
    /\ enable_rebalancing
    /\ total_iterations >= 2
    /\ Len(previous_results.result_dict) = 2 * total_iterations
    /\ simulation_results = previous_results
    /\ Run(1) # Run(total_iterations + 1)
    /\ current_mix # target_mix

\* the invariant of the result set: five lists of one length, entry i tagged
\* with the i-th (sequence, iteration) pair in sequence-major order
ResultSetInOrder ==
    LET n == Len(simulation_results.result_dict) IN
        /\ Len(simulation_results.iteration) = n
        /\ Len(simulation_results.sequence_index) = n
        /\ Len(simulation_results.sequence_start_year) = n
        /\ Len(simulation_results.sequence_end_year) = n
        /\ \A i \in 1..n :
            /\ simulation_results.sequence_index[i] = (i - 1) \div total_iterations
            /\ simulation_results.iteration[i] = (i - 1) % total_iterations
            /\ simulation_results.sequence_start_year[i] =
                complete_sequences[((i - 1) \div total_iterations) + 1].start_year
            /\ simulation_results.sequence_end_year[i] =
                complete_sequences[((i - 1) \div total_iterations) + 1].end_year

C19_Transition ==
    /\ ResultSetInOrder'
    /\ pc = "record" =>
        /\ Len(simulation_results'.result_dict) = Len(simulation_results.result_dict) + 1
        /\ Last(simulation_results'.result_dict) = investment_breakdown
        /\ Last(simulation_results'.iteration) = iteration
        /\ Last(simulation_results'.sequence_index) = seq_idx
    /\ pc' = "return" =>
        Len(simulation_results'.result_dict) = Len(complete_sequences) * total_iterations

\* C19: the returned result set holds exactly one run for every (sequence
\* index, iteration) pair, appended in sequence-major order; the five lists
\* always have one length and entry i of each describes the same run.
C19_ResultSet == [][C19_Transition]_vars

\* a returned result set of two sequences with at least two iterations each
C19_Witness ==
    /\ pc = "return"
    /\ total_iterations >= 2
    /\ Len(simulation_results.result_dict) = 2 * total_iterations
    /\ simulation_results.sequence_index[total_iterations + 1] = 1
    /\ simulation_results.iteration[total_iterations + 1] = 0
    /\ simulation_results.iteration[2] = 1

\* C20: the portfolio cash flows of a run are the negated month-0 total at
\* t = 0, then for the contribution looked up for each month m its negated
\* amount at t = m/12, then the month-180 total at t = 15; the two lists have
\* equal length.  (Times in twelfths of a year.)
C20_CashFlowsAtLookupMonth ==
    (pc \in {"irr", "done"} /\ irr_idx > 0) =>
        LET result_dict == simulation_results.result_dict[irr_idx] IN
            /\ Len(cash_flows) = Len(times)
            /\ Len(cash_flows) = 182
            /\ cash_flows[1] = -FiveBalanceTotal(result_dict, 1)
            /\ times[1] = 0
            /\ \A m \in 0..179 :
                /\ cash_flows[m + 2] = -ScheduledAmount(m)
                /\ times[m + 2] = m
            /\ cash_flows[182] = FiveBalanceTotal(result_dict, 181)
            /\ times[182] = 180

----------------------------------------------------------------------------
(* Claims about the active mix and the cash-only series *)

\* an active mix is in force: the run has been set up
MixInForce == current_mix # NoMix

\* C28 as stated: with a non-negative target mix that sums to 1, in every
\* state of a run each of the four components of the active mix is within
\* [0, 1] and the four sum to 1 (here: to within one rounding unit for each
\* component).
C28_ActiveMixIsADistribution ==
    (NonNegativeInputs /\ MixInForce) =>
        /\ \A asset \in MixAssets : current_mix[asset] \in 0..Scale
        /\ Abs(MixSum(current_mix) - Scale) <= Cardinality(MixAssets)

\* the target mix is all cash-equivalent
AllCash ==
    /\ investment_mix.HYSA = Scale
    /\ \A asset \in MixAssets \ {"HYSA"} : investment_mix[asset] = 0

\* C29 as stated: with a target mix that is 100% cash-equivalent, in every run
\* and at every month the five-balance total equals the Baseline, with or
\* without rebalancing, and no run of the summary beats the baseline.
C29_AllCashIsTheBaseline ==
    AllCash =>
        /\ \A k \in AllRuns : \A i \in 1..Len(Run(k).Month_Index) :
                FiveBalanceTotal(Run(k), i) = Run(k).Baseline[i]
        /\ pc \in {"milestones", "ranking", "irrs", "irr", "done"} =>
                beat_baseline_pct = Num(0)

\* the series follows from its first value, the amounts added each month and
\* the cash rate alone
CashOnlySeries(series, first, Added(_)) ==
    /\ series[1] = first
    /\ \A i \in 1..(Len(series) - 1) :
        series[i + 1] = ((series[i] + Added(i - 1)) * (Scale + HYSA_monthly_returns)) \div Scale

NothingAdded(month) == 0

\* C30: within one call the Baseline series and the Emergency_fund series of
\* every run are the same: each is determined by the initial amounts, the
\* contribution function and the cash-equivalent rate, whatever the sequence,
\* the iteration, the sampled returns, the mix and the rebalancing settings.
\* (Each run is compared with the closed form when it is complete, and the
\* recorded runs with each other in every state.)
C30_CashOnlySeriesShared ==
    /\ pc = "record" =>
        /\ Len(investment_breakdown.Baseline) = RunPoints
        /\ Len(investment_breakdown.Emergency_fund) = RunPoints
        /\ CashOnlySeries(investment_breakdown.Baseline,
                          investment_start + emergency_fund_start, contribution_function)
        /\ CashOnlySeries(investment_breakdown.Emergency_fund, emergency_fund_start,
                          NothingAdded)
    /\ \A k \in RecordedRuns :
        /\ Run(k).Baseline = Run(1).Baseline
        /\ Run(k).Emergency_fund = Run(1).Emergency_fund

\* a returned result set of rebalanced volatile runs over two sequences whose
\* equity balances differ from run to run
C30_Witness ==
    /\ pc = "return"
    /\ ~NoVolatility
    /\ enable_rebalancing
    /\ Len(simulation_results.result_dict) = 2 * MaxIterations
    /\ \A k \in 2..(2 * MaxIterations) : Run(k).SP500 # Run(1).SP500
    /\ Run(1).Baseline[RunPoints] > Run(1).Baseline[1]

----------------------------------------------------------------------------
(* Claims about calculate_all_irrs *)

\* what one output list gains from a solve: nothing when the result is nan,
\* else the result as a percentage
GainsFrom(list, result) ==
    IF isnan(result) THEN list ELSE Append(list, Num(result.value * 100))

C21_Transition ==
    pc = "irr" =>
        /\ irr_idx' = irr_idx + 1
        /\ pc' = (IF irr_idx' < Len(simulation_results.result_dict) THEN "irr" ELSE "done")
        /\ irr_returns' = GainsFrom(irr_returns, irr')
        /\ baseline_irr_returns' = GainsFrom(baseline_irr_returns, baseline_irr')

\* the entries of an output list are results of distinct runs done so far, in
\* run order, and none is nan
ConvergedInRunOrder(list) ==
    /\ Len(list) <= irr_idx
    /\ \A i \in 1..Len(list) :
        /\ ~isnan(list[i])
        /\ \E k \in 1..irr_idx : list[i] = Num(100 * k)
    /\ \A i, j \in 1..Len(list) : i < j => list[i].value < list[j].value

\* C21: a solve that fails gives nan instead of an exception; the run is then
\* left out of the corresponding output list and the loop goes on with the
\* next run, so each list has at most one entry per run and holds the
\* converged runs in run order.
C21_FailedSolvesAreOmitted ==
    [][/\ C21_Transition
       /\ pc' \in {"irr", "done"} =>
            /\ ConvergedInRunOrder(irr_returns)'
            /\ ConvergedInRunOrder(baseline_irr_returns)'
       /\ pc' = "done" => irr_idx' = Len(simulation_results.result_dict)]_vars

\* the second run of four failed for the portfolio and the last for the
\* Baseline; the loop has gone through all four
C21_Witness ==
    /\ pc = "done"
    /\ irr_idx = 4
    /\ irr_returns = <<Num(100), Num(300), Num(400)>>
    /\ baseline_irr_returns = <<Num(100), Num(200), Num(300)>>
    /\ isnan(baseline_irr)

\* the schedule contributes nothing in any month
NoContribution == \A i \in 1..Len(contribution_periods) : contribution_periods[i].contribution = 0

\* an amount due in a number of months, discounted month by month at the
\* monthly rate
RECURSIVE Discounted(_, _, _)
Discounted(amount, rate, months) ==
    IF amount = 0 \/ months = 0 THEN amount
    ELSE IF months = 1 THEN (amount * Scale) \div (Scale + rate)
    ELSE Discounted(Discounted(amount, rate, months \div 2), rate,
                    months - (months \div 2))

\* the value, at the time of flow lo, of the flows lo..hi
RECURSIVE ValueOf(_, _, _, _, _)
ValueOf(flows, at, rate, lo, hi) ==
    IF lo = hi THEN flows[lo]
    ELSE LET mid == (lo + hi) \div 2 IN
         ValueOf(flows, at, rate, lo, mid)
            + Discounted(ValueOf(flows, at, rate, mid + 1, hi), rate, at[mid + 1] - at[lo])

\* the rounding the discounted sum can carry: a unit for each flow and a unit
\* for each month of discounting
NpvTolerance == 2 * RunPoints

----------------------------------------------------------------------------
(* Claims about the aggregation of a result set *)

\* the five balances of run k at point j
FiveBalances(k, j) ==
    Run(k).SP500[j] + Run(k).NASDAQ100[j] + Run(k).TBILL_3M[j] + Run(k).HYSA[j]
        + Run(k).Emergency_fund[j]

\* the summary has been computed
Summarised == pc \in {"milestones", "ranking", "irrs", "irr", "done", "raised"}

\* the runs whose own final total is strictly above their own final Baseline
BeatingRuns == {k \in RecordedRuns : FiveBalances(k, RunPoints) > Run(k).Baseline[RunPoints]}

\* C24: the beat-baseline share of a result set with runs is the number of
\* runs whose own month-180 five-balance total is strictly greater than that
\* run's month-180 Baseline, divided by the number of runs (here as a
\* percentage, as the code computes it), and it lies within [0, 1].
C24_BeatBaselineFraction ==
    (Summarised /\ RecordedRuns # {}) =>
        /\ ~isnan(beat_baseline_pct)
        /\ beat_baseline_pct.value =
                (Cardinality(BeatingRuns) * 100 * Scale) \div Cardinality(RecordedRuns)
        /\ beat_baseline_pct.value \in 0..(100 * Scale)

\* a summary in which some runs beat their Baseline and others do not
C24_Witness ==
    /\ Summarised
    /\ Cardinality(RecordedRuns) = 4
    /\ Cardinality(BeatingRuns) = 2
    /\ beat_baseline_pct = Num(50 * Scale)

\* the year of the sample that calculate_milestone_statistics took last
SampledYear == milestones[IF pc = "raised" THEN milestone_idx + 1 ELSE milestone_idx]

Sampled ==
    \/ pc = "raised"
    \/ pc \in {"milestones", "ranking", "irrs", "irr", "done"} /\ milestone_idx >= 1

\* the runs with more than 12 * y points
RunsReaching(y) == {k \in RecordedRuns : Len(Run(k).Month_Index) > 12 * y}

\* C25: the sample for year y holds, in run order, exactly the runs with
\* more than 12 * y points, each with its five-balance total at month 12 * y
\* and its own Baseline at month 12 * y; for y in 0..15 that is every run,
\* and for y = 15 the sample is the final_values and baselines of
\* extract_simulation_data.
C25_MilestoneSample ==
    Sampled =>
        LET y == SampledYear
            Place(k) == Cardinality({j \in RunsReaching(y) : j <= k})
        IN /\ Len(milestone_values) = Cardinality(RunsReaching(y))
           /\ Len(milestone_baselines) = Cardinality(RunsReaching(y))
           /\ \A k \in RunsReaching(y) :
                /\ milestone_values[Place(k)] = FiveBalances(k, 12 * y + 1)
                /\ milestone_baselines[Place(k)] = Run(k).Baseline[12 * y + 1]
           /\ y \in 0..15 => RunsReaching(y) = RecordedRuns
           /\ y = 15 =>
                /\ milestone_values = data.final_values
                /\ milestone_baselines = data.baselines

\* the sample of year 15 over four runs that end on four different totals
C25_Witness ==
    /\ pc = "ranking"
    /\ SampledYear = 15
    /\ Len(milestone_values) = 4
    /\ Cardinality({milestone_values[i] : i \in 1..4}) = 4
    /\ milestone_values = data.final_values
    /\ ~isnan(stats.p50)

\* C26 as stated: without valid sequences, or with an empty sample,
\* the core signals that there is no data: run_investment_simulation does not
\* return an empty result set, and calculate_milestone_statistics computes
\* no percentile, mean or quotient over an empty sample.
C26_FailsFastWithoutData ==
    /\ pc = "return" => simulation_results.result_dict # <<>>
    /\ Sampled => milestone_values # <<>>
    /\ \A field \in DOMAIN stats : ~isnan(stats[field])

\* the sequence indices that have runs
Groups == {simulation_results.sequence_index[k] : k \in RecordedRuns}

RunsOfGroup(g) == {k \in RecordedRuns : simulation_results.sequence_index[k] = g}

\* the n-th smallest final total of the runs of group g
NthFinal(g, n) ==
    CHOOSE v \in {FiveBalances(k, RunPoints) : k \in RunsOfGroup(g)} :
        /\ Cardinality({k \in RunsOfGroup(g) : FiveBalances(k, RunPoints) < v}) < n
        /\ Cardinality({k \in RunsOfGroup(g) : FiveBalances(k, RunPoints) <= v}) >= n

\* the median of the final totals of the runs of group g
MedianFinal(g) ==
    LET n == Cardinality(RunsOfGroup(g)) IN
        IF n % 2 = 1 THEN NthFinal(g, (n + 1) \div 2)
        ELSE (NthFinal(g, n \div 2) + NthFinal(g, (n \div 2) + 1)) \div 2

Ranked == pc \in {"irrs", "irr", "done"}

\* C27: the ranking has one entry for every sequence index with at least one
\* run and no other, so every run belongs to exactly one entry; an entry's
\* median is the median of the final totals of its own runs; and the entries
\* are in order of non-increasing median.
C27_SequenceRanking ==
    Ranked =>
        /\ Len(sorted_sequences) = Cardinality(Groups)
        /\ {sorted_sequences[i].seq_idx : i \in 1..Len(sorted_sequences)} = Groups
        /\ \A k \in RecordedRuns :
            Cardinality({i \in 1..Len(sorted_sequences) :
                sorted_sequences[i].seq_idx = simulation_results.sequence_index[k]}) = 1
        /\ \A i \in 1..Len(sorted_sequences) :
            sorted_sequences[i].median_final = MedianFinal(sorted_sequences[i].seq_idx)
        /\ \A i, j \in 1..Len(sorted_sequences) :
            i < j => sorted_sequences[i].median_final >= sorted_sequences[j].median_final

\* a ranking that puts the second sequence first, each group of two runs
\* with two different final totals
C27_Witness ==
    /\ Ranked
    /\ Len(sorted_sequences) = 2
    /\ sorted_sequences[1].seq_idx = 1
    /\ sorted_sequences[1].median_final > sorted_sequences[2].median_final
    /\ \A g \in Groups :
        /\ Cardinality(RunsOfGroup(g)) = 2
        /\ NthFinal(g, 1) < NthFinal(g, 2)

----------------------------------------------------------------------------
(* Claims about calculate_irr *)

\* the flows are one payment at t = 0 and one positive receipt later
PaymentAndReceipt ==
    /\ Len(cash_flows) = 2
    /\ cash_flows[1] < 0
    /\ cash_flows[2] > 0
    /\ times[1] = 0

\* rate is (received / paid) ** (1 / years) - 1 to within one hundredth of a
\* percent: (1 + rate) ** years brackets received / paid
IsAnnualizedRate(rate, paid, received, years) ==
    /\ RatePow(RateScale + rate - 1, years) * paid <= received * RateScale
    /\ RatePow(RateScale + rate + 1, years) * paid >= received * RateScale

\* C23: on the flows [-100 at t = 0, +200 at t = 10] calculate_irr converges,
\* by Newton's method from a guess of 5% and within 100 iterations, to the
\* annualized rate (200 / 100) ** (1 / 10) - 1, about 7.177%; and so it does,
\* to the closed-form rate, on every payment followed by one receipt.
C23_ClosedFormRate ==
    (pc = "return" /\ PaymentAndReceipt) =>
        /\ ~isnan(irr)
        /\ itr < maxiter
        /\ IsAnnualizedRate(irr.value, -cash_flows[1], cash_flows[2], YearsOf(times[2]))
        /\ (cash_flows = <<-100, 200>> /\ times = <<0, Twelfths(10)>>) =>
                irr.value \in 717..718

\* the solver has returned on the flows [-100 at 0, +200 at 10 years] after
\* more than one iteration
C23_Witness ==
    /\ pc = "return"
    /\ cash_flows = <<-100, 200>>
    /\ times = <<0, Twelfths(10)>>
    /\ itr >= 2
    /\ p0 # StartingGuess
    /\ irr = Num(p0)

====
